---- MODULE Spec2Model ----
(***************************************************************************)
(* Model of the trade-lifecycle, signal and polling core of the trading   *)
(* bot:                                                                    *)
(*   - execution.TradeManager   (src/pkg/execution/trade_manager.go)       *)
(*   - monitor.RiskManager      (src/pkg/monitor/risk_manager.go)          *)
(*   - signal.Generator         (src/pkg/auth/auth_manager.go, l. 90 ff.)  *)
(*   - monitor.MarketMonitor    (src/pkg/monitor/market_monitor.go)        *)
(*   - performance.Monitor      (src/pkg/performance/monitor.go)           *)
(*   - config.Config            (src/pkg/config/config.go)                 *)
(*                                                                         *)
(* Every exported method of the two managers runs under the manager's own  *)
(* mutex, so one call is one atomic action.  The money of the two managers *)
(* is in whole units.  A float64 of the signal generator and of the        *)
(* performance monitor is an exact number together with the side on which  *)
(* the code's float64 lies.                                                *)
(***************************************************************************)
EXTENDS Integers, Sequences, FiniteSets, TLC

(***************************************************************************)
(* Bounds of the model and input domains.                                  *)
(***************************************************************************)
MaxTrades == 2
MaxNow == 2
MaxAbsPnL == 8
MaxLoops == 3

Symbols == {"AAPL", "MSFT"}
Prices == {6, 8, 10}
TradeSignals == {"BUY", "SELL", "HOLD"}
CapitalValues == {5, 24}
MaxLossValues == {4}
MaxDailyLossValues == {6}

\* time.Now() is counted in half days: 24 * time.Hour is two units.
DayLen == 2

VARIABLES
    trades,            \* TradeManager.trades: ID -> Trade
    activeTrades,      \* TradeManager.activeTrades: the IDs whose *Trade it holds
    capitalPerStock,   \* TradeManager.capitalPerStock
    maxLossPerTrade,   \* TradeManager.maxLossPerTrade
    maxDailyLoss,      \* RiskManager.maxDailyLoss
    dailyPnL,          \* RiskManager.dailyPnL
    tradingDay,        \* RiskManager.tradingDay
    now,               \* the wall clock read by time.Now()
    nano,              \* the UnixNano reading that the last trade ID was built from
    last,              \* the call that produced this state and what it returned
    checking,          \* the CheckDailyLoss call that holds RiskManager.mu
    tripped,           \* history: CheckDailyLoss reported the limit, no reset since
    closes,            \* history: which sell trade closed which position
    realizedToday,     \* history: PnL handed to UpdateDailyPnL since the day began
    realizedBefore,    \* history: PnL handed to UpdateDailyPnL on earlier days
    ind,               \* classifier input: the indicator set
    cfg,               \* classifier input: config.VolatilityParams
    sig,               \* classifier output: the emitted signal, or NoSignal
    held,              \* the *Trade pointers a caller was handed by the reads
    isRunning,         \* MarketMonitor.isRunning
    stopChan,          \* MarketMonitor.stopChan: the channel the field holds
    made,              \* the number of channels made so far
    closedChans,       \* the channels that were closed
    loops,             \* the monitorMarket goroutines, in the order of their launch
    started,           \* history: the last call that succeeded was Start
    marketData,        \* GenerateSignals input: symbol -> MarketData
    signals,           \* GenerateSignals output: the signals, in the order appended
    results,           \* performance.Monitor.results
    metrics,           \* performance.Monitor.metrics
    added,             \* history: the number of AddSignal calls
    clock,             \* time.Now() in America/New_York, and UTC's lead in hours
    tradingHours,      \* config.TradingHoursConfig
    zoneinfo,          \* whether the host has the time zone database
    mu,                \* the sync.RWMutex of each manager, who writes and who reads
    calls              \* each goroutine's call in progress and its position in it

tmVars == <<trades, activeTrades, capitalPerStock, maxLossPerTrade, nano, closes>>
rmVars == <<maxDailyLoss, dailyPnL, tradingDay, checking, tripped, realizedToday,
            realizedBefore>>
sgVars == <<ind, cfg, sig>>
mmVars == <<isRunning, stopChan, made, closedChans, loops, started>>
gsVars == <<marketData, signals>>
pmVars == <<results, metrics, added>>
thVars == <<clock, tradingHours, zoneinfo>>
lkVars == <<mu, calls>>
vars == <<trades, activeTrades, capitalPerStock, maxLossPerTrade,
          maxDailyLoss, dailyPnL, tradingDay, checking, now, nano, last, tripped,
          closes, realizedToday, realizedBefore, ind, cfg, sig, held,
          isRunning, stopChan, made, closedChans, loops, started, marketData,
          signals, results, metrics, added, clock, tradingHours, zoneinfo, mu,
          calls>>

NoTrade == <<>>
NoSignal == [Type |-> "NONE"]
\* No CheckDailyLoss is under way.
NoCheck == [running |-> FALSE, stocks |-> <<>>, pnl |-> 0, snapshot |-> {}]
NoRet == [arg |-> <<>>, trade |-> NoTrade, err |-> "", closed |-> <<>>,
          reached |-> FALSE, pnl |-> 0, list |-> <<>>]
Called(op, ret) == [op |-> op] @@ ret

(***************************************************************************)
(* Helpers.                                                                *)
(***************************************************************************)
RECURSIVE Perms(_)
Perms(S) ==
    IF S = {} THEN {<<>>}
    ELSE UNION {{<<x>> \o p : p \in Perms(S \ {x})} : x \in S}

RECURSIVE SumOver(_, _)
SumOver(S, f) ==
    IF S = {} THEN 0
    ELSE LET x == CHOOSE y \in S : TRUE IN f[x] + SumOver(S \ {x}, f)

Range(s) == {s[i] : i \in 1..Len(s)}

\* The live-price maps handed to the scans: symbol -> data.Stock.CurrentPrice.
StockMaps == UNION {[D -> Prices] : D \in SUBSET Symbols}

\* t.Truncate(24 * time.Hour)
Truncate(t) == t - (t % DayLen)

(***************************************************************************)
(* execution.TradeManager                                                  *)
(***************************************************************************)
\* fmt.Sprintf("%s-%d", symbol, UnixNano), "%s-sell-%d", "%s-stoploss-%d", "%s-close-%d"
TradeID(symbol, kind, t) == <<symbol, kind, t>>

Trade(id, symbol, quantity, price, type, reason) ==
    [ID |-> id, Symbol |-> symbol, Quantity |-> quantity, Price |-> price,
     Type |-> type, Status |-> "EXECUTED", Reason |-> reason]

\* Mutant: a closed position is marked like a cancelled one.
CompleteAsCancelled(trade) == [trade EXCEPT !.Status = "CANCELLED"]

\* trade.Status = Completed
Complete(trade) == [trade EXCEPT !.Status = "COMPLETED"]

\* Mutant: the lookup takes the symbol for a key of the map, and the keys are IDs.
getActiveTradeByKey(symbol) == {id \in activeTrades : id = symbol}

\* The candidates of getActiveTradeForSymbol: it returns the first match of a
\* map iteration, whose order is not fixed.
getActiveTradeForSymbol(symbol) == {id \in activeTrades : trades[id].Symbol = symbol}

\* Room in the trade records for n more trades.
RoomFor(n) == Cardinality(DOMAIN trades) + n <= MaxTrades

\* Mutant: the quotient is rounded up to the next whole share.
QuantityRoundedUp(price) == (capitalPerStock + price - 1) \div price

\* quantity := int(t.capitalPerStock / stock.CurrentPrice)
Quantity(price) == capitalPerStock \div price

openPosition(decision, stock) ==
    LET quantity == Quantity(stock.CurrentPrice)
        id == TradeID(stock.Symbol, "", nano + 1)
    IN  IF quantity <= 0
        THEN /\ last' = Called("ExecuteTrade", [NoRet EXCEPT !.arg = decision, !.err = "insufficient capital"])
             /\ UNCHANGED tmVars
        ELSE /\ RoomFor(1)
             /\ trades' = trades @@ (id :> Trade(id, stock.Symbol, quantity,
                                                 stock.CurrentPrice, "BUY", "decision"))
             /\ activeTrades' = activeTrades \cup {id}
             /\ nano' = nano + 1
             /\ last' = Called("ExecuteTrade", [NoRet EXCEPT !.arg = decision, !.trade = id])
             /\ UNCHANGED <<capitalPerStock, maxLossPerTrade, closes>>

closePosition(tid, decision, stock) ==
    LET id == TradeID(stock.Symbol, "sell", nano + 1)
        sellTrade == Trade(id, stock.Symbol, trades[tid].Quantity,
                           stock.CurrentPrice, "SELL", "decision")
    IN  /\ RoomFor(1)
        /\ trades' = [trades EXCEPT ![tid] = Complete(@)] @@ (id :> sellTrade)
        /\ activeTrades' = activeTrades \ {tid}
        /\ nano' = nano + 1
        /\ closes' = closes \cup {[buy |-> tid, sell |-> id]}
        /\ last' = Called("ExecuteTrade", [NoRet EXCEPT !.arg = decision, !.trade = id])
        /\ UNCHANGED <<capitalPerStock, maxLossPerTrade>>

ExecuteTrade(decision, stock) ==
    /\ IF getActiveTradeForSymbol(decision.Symbol) # {}
       THEN IF decision.Signal = "SELL"
            THEN \E tid \in getActiveTradeForSymbol(decision.Symbol) :
                     closePosition(tid, decision, stock)
            ELSE /\ last' = Called("ExecuteTrade", [NoRet EXCEPT !.arg = decision, !.err = "already active"])
                 /\ UNCHANGED tmVars
       ELSE IF decision.Signal = "BUY"
            THEN openPosition(decision, stock)
            ELSE /\ last' = Called("ExecuteTrade", [NoRet EXCEPT !.arg = decision, !.err = "no action"])
                 /\ UNCHANGED tmVars
    /\ UNCHANGED <<rmVars, now, sgVars, held, mmVars, gsVars, pmVars, thVars, lkVars>>

CancelTrade(tradeID) ==
    /\ IF tradeID \notin DOMAIN trades
       THEN /\ last' = Called("CancelTrade", [NoRet EXCEPT !.err = "trade not found"])
            /\ UNCHANGED tmVars
       ELSE IF trades[tradeID].Status = "COMPLETED"
            THEN /\ last' = Called("CancelTrade", [NoRet EXCEPT !.err = "cannot cancel completed"])
                 /\ UNCHANGED tmVars
            ELSE /\ trades' = [trades EXCEPT ![tradeID].Status = "CANCELLED"]
                 /\ activeTrades' = activeTrades \ {tradeID}
                 /\ last' = Called("CancelTrade", NoRet)
                 /\ UNCHANGED <<capitalPerStock, maxLossPerTrade, nano, closes>>
    /\ UNCHANGED <<rmVars, now, sgVars, held, mmVars, gsVars, pmVars, thVars, lkVars>>

\* loss := entryValue - currentValue
Loss(trade, stock) == trade.Quantity * trade.Price - trade.Quantity * stock

\* Mutant: the stop fires at the threshold already.
StopLossHitAtThreshold(trade, stock) == Loss(trade, stock) >= maxLossPerTrade

\* if loss > t.maxLossPerTrade
StopLossHit(trade, stock) == Loss(trade, stock) > maxLossPerTrade

\* The stores of trade.Quantity by a caller that land inside a call of a
\* manager, which takes no lock the caller takes: the pointers they go
\* through (any of those the caller holds, one store to each), the value,
\* and for each the number of reads of trade.Quantity in the loop body of its
\* trade that come before the store.  ExecuteTrade, CloseAllPositions and
\* UpdateDailyPnL read every field of a trade once, and the scans read
\* trade.Price once, so such a store inside them is a store before or after
\* them; CheckStopLoss reads trade.Quantity three times and CheckDailyLoss
\* twice.
RacingStores(reads) ==
    UNION {[stored : {D}, value : {1}, after : [D -> 1..(reads - 1)]] :
              D \in (SUBSET held) \ {{}}}

\* No store lands inside the call.
NoRace == [stored |-> {}, value |-> 0, after |-> <<>>]

\* trade.Quantity as the k-th read of it in the loop body yields it
QuantityRead(id, k, race) ==
    IF id \in race.stored
    THEN IF k > race.after[id] THEN race.value ELSE trades[id].Quantity
    ELSE trades[id].Quantity

\* The trade after the stores, if it is one stored to.
Stored(id, race) ==
    IF id \in race.stored THEN [trades[id] EXCEPT !.Quantity = race.value] ELSE trades[id]

\* One pass of `for id, trade := range t.activeTrades`: the positions the loop
\* body closes, `closing` (in the order the map iteration meets them, which
\* is not fixed), are sold at the live price, each under a fresh ID, and the
\* sell trades are returned in that order.  The quantity sold is the last
\* read of trade.Quantity in the body.
CloseEachRead(op, kind, closing, stocks, race) ==
    LET n == Len(closing)
        sellID(k) == TradeID(trades[closing[k]].Symbol, kind, nano + k)
        sellOf == [k \in 1..n |->
                     Trade(sellID(k), trades[closing[k]].Symbol,
                           QuantityRead(closing[k], 3, race),
                           stocks[trades[closing[k]].Symbol], "SELL", kind)]
        sold == {sellID(k) : k \in 1..n}
        idx(id) == CHOOSE k \in 1..n : sellID(k) = id
    IN  /\ RoomFor(n)
        /\ trades' = [id \in DOMAIN trades \cup sold |->
                        IF id \in DOMAIN trades
                        THEN IF id \in Range(closing)
                             THEN Complete(Stored(id, race)) ELSE Stored(id, race)
                        ELSE sellOf[idx(id)]]
        /\ activeTrades' = activeTrades \ Range(closing)
        /\ nano' = nano + n
        /\ closes' = closes \cup {[buy |-> closing[k], sell |-> sellID(k)] : k \in 1..n}
        /\ last' = Called(op, [NoRet EXCEPT !.closed = [k \in 1..n |-> sellID(k)]])
        /\ UNCHANGED <<capitalPerStock, maxLossPerTrade>>

CloseEach(op, kind, closing, stocks) == CloseEachRead(op, kind, closing, stocks, NoRace)

CheckStopLoss(stocks) ==
    /\ \E closing \in Perms({id \in activeTrades :
                                   /\ trades[id].Symbol \in DOMAIN stocks
                                   /\ StopLossHit(trades[id], stocks[trades[id].Symbol])}) :
         CloseEach("CheckStopLoss", "stoploss", closing, stocks)
    /\ UNCHANGED <<rmVars, now, sgVars, held, mmVars, gsVars, pmVars, thVars, lkVars>>

CloseAllPositions(stocks) ==
    /\ \E closing \in Perms({id \in activeTrades : trades[id].Symbol \in DOMAIN stocks}) :
         CloseEach("CloseAllPositions", "close", closing, stocks)
    /\ UNCHANGED <<rmVars, now, sgVars, held, mmVars, gsVars, pmVars, thVars, lkVars>>

\* The reads hand out the *Trade values of the maps: a pointer is the ID of
\* the trade it points to, and what its holder reads through it is the
\* trade the manager works on.
Deref(pointer) == trades[pointer]

GetTrade(tradeID) ==
    /\ IF tradeID \in DOMAIN trades
       THEN /\ held' = held \cup {tradeID}
            /\ last' = Called("GetTrade", [NoRet EXCEPT !.trade = tradeID])
       ELSE /\ held' = held
            /\ last' = Called("GetTrade", NoRet)
    /\ UNCHANGED <<tmVars, rmVars, now, sgVars, mmVars, gsVars, pmVars, thVars, lkVars>>

\* for _, trade := range t.trades { trades = append(trades, trade) }
GetAllTrades ==
    /\ \E list \in Perms(DOMAIN trades) :
         /\ held' = held \cup Range(list)
         /\ last' = Called("GetAllTrades", [NoRet EXCEPT !.list = list])
    /\ UNCHANGED <<tmVars, rmVars, now, sgVars, mmVars, gsVars, pmVars, thVars, lkVars>>

GetActiveTrades ==
    /\ \E list \in Perms(activeTrades) :
         /\ held' = held \cup Range(list)
         /\ last' = Called("GetActiveTrades", [NoRet EXCEPT !.list = list])
    /\ UNCHANGED <<tmVars, rmVars, now, sgVars, mmVars, gsVars, pmVars, thVars, lkVars>>

\* What a caller stores through a pointer it holds.
CallerWrites == [field : {"Quantity"}, value : {1}]
                    \cup [field : {"Price"}, value : {6}]
                    \cup [field : {"Status"}, value : {"CANCELLED"}]

\* trade.Quantity = 1, trade.Price = 6, trade.Status = Cancelled, by a caller
CallerWrite(pointer, w) ==
    /\ pointer \in held
    /\ Deref(pointer)[w.field] # w.value
    /\ trades' = [trades EXCEPT ![pointer] = [@ EXCEPT ![w.field] = w.value]]
    /\ last' = Called("CallerWrite", [NoRet EXCEPT !.trade = pointer])
    /\ UNCHANGED <<activeTrades, capitalPerStock, maxLossPerTrade, nano, closes>>
    /\ UNCHANGED <<held, rmVars, now, sgVars, mmVars, gsVars, pmVars, thVars, lkVars>>

\* loss := entryValue - currentValue, where currentValue is computed from the
\* first read of trade.Quantity and entryValue from the second
LossRead(id, stock, race) ==
    QuantityRead(id, 2, race) * trades[id].Price - QuantityRead(id, 1, race) * stock

\* CheckStopLoss with stores of a caller landing in the loop bodies of the
\* trades stored to: the reads after a store yield the stored value.
CheckStopLossRace(stocks, race) ==
    /\ race.stored \subseteq activeTrades
    /\ \A pointer \in race.stored :
          /\ trades[pointer].Symbol \in DOMAIN stocks
          /\ trades[pointer].Quantity # race.value
    /\ \E closing \in Perms({id \in activeTrades :
                                   /\ trades[id].Symbol \in DOMAIN stocks
                                   /\ LossRead(id, stocks[trades[id].Symbol], race)
                                        > maxLossPerTrade}) :
         CloseEachRead("CheckStopLoss", "stoploss", closing, stocks, race)
    /\ UNCHANGED <<rmVars, now, sgVars, held, mmVars, gsVars, pmVars, thVars, lkVars>>

(***************************************************************************)
(* monitor.RiskManager                                                     *)
(***************************************************************************)
\* Mutant: the clock is compared without truncating it to the day.
NewTradingDayUntruncated == now # tradingDay

\* today := time.Now().Truncate(24 * time.Hour); if !today.Equal(r.tradingDay)
NewTradingDay == Truncate(now) # tradingDay

\* r.dailyPnL after the reset of a new trading day
PnLAfterReset == IF NewTradingDay THEN 0 ELSE dailyPnL

\* tradePnL := currentValue - entryValue, by position of the slice that
\* GetActiveTrades returned: the fields are read through its pointers.
UnrealizedPnL(stocks) ==
    [id \in checking.snapshot |->
        IF trades[id].Symbol \in DOMAIN stocks
        THEN trades[id].Quantity * stocks[trades[id].Symbol]
             - trades[id].Quantity * trades[id].Price
        ELSE 0]

\* if currentPnL < -r.maxDailyLoss
LimitReached(currentPnL) == currentPnL < -maxDailyLoss

\* CheckDailyLoss up to the return of GetActiveTrades: under r.mu the day is
\* reset, currentPnL starts from r.dailyPnL, and the open positions are read
\* under t.mu, which GetActiveTrades gives back when it returns.  The call
\* keeps r.mu, so no other call of the RiskManager runs before it returns;
\* the calls of the TradeManager do.
CheckDailyLossSnapshot(stocks) ==
    /\ ~checking.running
    /\ dailyPnL' = PnLAfterReset
    /\ tradingDay' = Truncate(now)
    /\ checking' = [running |-> TRUE, stocks |-> stocks, pnl |-> PnLAfterReset,
                    snapshot |-> activeTrades]
    /\ tripped' = (tripped /\ ~NewTradingDay)
    /\ last' = Called("CheckDailyLossSnapshot", NoRet)
    /\ UNCHANGED <<tmVars, maxDailyLoss, realizedToday, realizedBefore, now, sgVars>>
    /\ UNCHANGED <<held, mmVars, gsVars, pmVars, thVars, lkVars>>

\* tradePnL with each read of trade.Quantity taken on its own: entryValue is
\* computed from the first and currentValue from the second
UnrealizedPnLRead(stocks, race) ==
    [id \in checking.snapshot |->
        IF trades[id].Symbol \in DOMAIN stocks
        THEN QuantityRead(id, 2, race) * stocks[trades[id].Symbol]
             - QuantityRead(id, 1, race) * trades[id].Price
        ELSE 0]

\* The rest of CheckDailyLoss with stores of a caller landing between the two
\* reads of trade.Quantity of the trades stored to.
CheckDailyLossRace(race) ==
    LET currentPnL == checking.pnl
                        + SumOver(checking.snapshot, UnrealizedPnLRead(checking.stocks, race))
        reached == LimitReached(currentPnL)
    IN  /\ checking.running
        /\ race.stored \subseteq checking.snapshot
        /\ \A pointer \in race.stored :
              /\ trades[pointer].Symbol \in DOMAIN checking.stocks
              /\ trades[pointer].Quantity # race.value
        /\ trades' = [id \in DOMAIN trades |-> Stored(id, race)]
        /\ checking' = NoCheck
        /\ tripped' = (reached \/ tripped)
        /\ last' = Called("CheckDailyLoss", [NoRet EXCEPT !.reached = reached, !.pnl = currentPnL])
        /\ UNCHANGED <<activeTrades, capitalPerStock, maxLossPerTrade, nano, closes>>
        /\ UNCHANGED <<maxDailyLoss, dailyPnL, tradingDay, realizedToday,
                       realizedBefore, now, sgVars>>
        /\ UNCHANGED <<held, mmVars, gsVars, pmVars, thVars, lkVars>>

\* The rest of CheckDailyLoss: the sum over the slice, the comparison and
\* the return.
CheckDailyLoss ==
    LET currentPnL == checking.pnl
                        + SumOver(checking.snapshot, UnrealizedPnL(checking.stocks))
        reached == LimitReached(currentPnL)
    IN  /\ checking.running
        /\ checking' = NoCheck
        /\ tripped' = (reached \/ tripped)
        /\ last' = Called("CheckDailyLoss", [NoRet EXCEPT !.reached = reached, !.pnl = currentPnL])
        /\ UNCHANGED <<tmVars, maxDailyLoss, dailyPnL, tradingDay, realizedToday,
                       realizedBefore, now, sgVars>>
        /\ UNCHANGED <<held, mmVars, gsVars, pmVars, thVars, lkVars>>

\* tradePnL := sellValue - buyValue
TradePnL(buyTrade, sellTrade) ==
    sellTrade.Quantity * sellTrade.Price - buyTrade.Quantity * buyTrade.Price

Abs(x) == IF x < 0 THEN -x ELSE x

UpdateDailyPnL(buyTrade, sellTrade) ==
    LET tradePnL == TradePnL(buyTrade, sellTrade)
    IN  /\ ~checking.running
        /\ Abs(PnLAfterReset + tradePnL) <= MaxAbsPnL
        /\ dailyPnL' = PnLAfterReset + tradePnL
        /\ tradingDay' = Truncate(now)
        /\ tripped' = (tripped /\ ~NewTradingDay)
        /\ realizedToday' = realizedToday + tradePnL
        /\ last' = Called("UpdateDailyPnL", NoRet)
        /\ UNCHANGED <<tmVars, maxDailyLoss, checking, realizedBefore, now, sgVars>>
        /\ UNCHANGED <<held, mmVars, gsVars, pmVars, thVars, lkVars>>

\* The wall clock moves on.
Tick ==
    /\ now < MaxNow
    /\ now' = now + 1
    /\ realizedToday' = IF Truncate(now + 1) # Truncate(now) THEN 0 ELSE realizedToday
    /\ realizedBefore' = IF Truncate(now + 1) # Truncate(now)
                         THEN realizedBefore + realizedToday ELSE realizedBefore
    /\ last' = Called("Tick", NoRet)
    /\ UNCHANGED <<tmVars, maxDailyLoss, dailyPnL, tradingDay, checking, tripped, sgVars>>
    /\ UNCHANGED <<held, mmVars, gsVars, pmVars, thVars, lkVars>>

(***************************************************************************)
(* The numbers of signal.Generator.                                        *)
(*                                                                         *)
(* A float64 of the generator is a record: the real number                 *)
(* (a + b * sqrt(q)) / d that the code's expression denotes, with d > 0,   *)
(* and fl, where the float64 that the code holds lies: "nearest" when it   *)
(* is the float64 nearest to that real, as a literal and the result of one *)
(* correctly rounded operation on exact operands are; "below" or "above"   *)
(* when it lies below or above that float64; "level" for the product       *)
(* currentPrice*(1 +- MinExpectedROI/100), whose rounding the table of the *)
(* ROI gate accounts for; "unknown" otherwise.  The samples of a series    *)
(* are whole dollars and whole shares, up to a few thousand, so the sums   *)
(* of the code are exact and two of its values that differ as reals        *)
(* differ by far more than the rounding of their operations: a comparison  *)
(* of the code is the comparison of the reals, and where the reals are     *)
(* equal it is decided by fl.  A comparison of equal reals whose fl does   *)
(* not decide it has no value in the model.                                *)
(*                                                                         *)
(* Units: prices, bands and levels in dollars, RSI in points, the volume   *)
(* ratio, the price change and an expected ROI in percent.  The parameters *)
(* MinVolatilityPercent, MinExpectedROI and StopLossPercent are tenths of  *)
(* a percent, the score and ConfidenceThreshold are hundredths: the sums   *)
(* of the float64 scores 0.3, 0.25, 0.25 and 0.2 compare with a threshold  *)
(* of whole hundredths as the whole numbers do.                            *)
(***************************************************************************)
Sgn(n) == IF n > 0 THEN 1 ELSE IF n < 0 THEN -1 ELSE 0

RECURSIVE GCD(_, _)
GCD(m, n) == IF n = 0 THEN m ELSE GCD(n, m % n)

\* The largest r in lo..hi with r * r <= x, given lo * lo <= x.
RECURSIVE SqrtBetween(_, _, _)
SqrtBetween(x, lo, hi) ==
    IF lo >= hi THEN lo
    ELSE LET mid == (lo + hi + 1) \div 2
         IN  IF mid * mid <= x THEN SqrtBetween(x, mid, hi)
             ELSE SqrtBetween(x, lo, mid - 1)

\* (a + b * sqrt(q)) / d with the common factor g of a, b and d taken out.
Lowest(a, b, q, d, fl, g) ==
    [a |-> a \div g, b |-> b \div g, q |-> IF b = 0 THEN 0 ELSE q,
     d |-> d \div g, fl |-> fl]

\* (a + b * sqrt(q)) / d, for the whole part r of sqrt(q): a square q is
\* taken out of the root.
Rooted(a, b, q, d, fl, r) ==
    IF r * r = q THEN Lowest(a + b * r, 0, 0, d, fl, GCD(Abs(a + b * r), d))
    ELSE Lowest(a, b, q, d, fl, GCD(GCD(Abs(a), Abs(b)), d))

\* (a + b * sqrt(q)) / d in lowest terms.
Num(a, b, q, d, fl) == Rooted(a, b, q, d, fl, SqrtBetween(q, 0, 46340))

\* float64(n) of a whole number, and the literal n/d
Whole(n) == [a |-> n, b |-> 0, q |-> 0, d |-> 1, fl |-> "nearest"]
Frac(n, d) == Num(n, 0, 0, d, "nearest")

IsWhole(x) == x.b = 0 /\ x.d = 1

\* -x
Neg(x) ==
    [x EXCEPT !.a = -x.a, !.b = -x.b,
              !.fl = CASE x.fl = "below" -> "above"
                       [] x.fl = "above" -> "below"
                       [] OTHER -> x.fl]

\* x + y and x - y, of two numbers with at most one root between them
Plus(x, y, fl) ==
    CASE x.b = 0 \/ y.b = 0 \/ x.q = y.q ->
        Num(x.a * y.d + y.a * x.d, x.b * y.d + y.b * x.d,
            IF x.b # 0 THEN x.q ELSE y.q, x.d * y.d, fl)
Minus(x, y, fl) == Plus(x, Neg(y), fl)

\* x * n / d, for whole n and d > 0
Scale(x, n, d, fl) == Num(x.a * n, x.b * n, x.q, x.d * d, fl)

\* x / y, for a rational y other than 0
Over(x, y, fl) ==
    CASE y.b = 0 /\ y.a # 0 ->
        Num(Sgn(y.a) * x.a * y.d, Sgn(y.a) * x.b * y.d, x.q, x.d * Abs(y.a), fl)

\* The sign of t + rem / an - sqrt(q), for whole t >= 0 and 0 <= rem < an:
\* by t when t and t + 1 do not enclose the root, and by the square
\* otherwise.
LargerAt(t, rem, an, q) ==
    IF t > 46340 \/ t * t > q THEN 1
    ELSE IF (t + 1) * (t + 1) <= q THEN -1
    ELSE Sgn(2 * t * rem * an + rem * rem - (q - t * t) * an * an)

\* The sign of am / an - sqrt(q), for am >= 0 and an > 0.
Larger(am, an, q) == LargerAt(am \div an, am % an, an, q)

\* The sign of m + n * sqrt(q).  Of two terms of opposite signs the larger
\* decides.
SurdSign(m, n, q) ==
    IF n = 0 \/ q = 0 THEN Sgn(m)
    ELSE IF m = 0 \/ Sgn(m) = Sgn(n) THEN Sgn(n)
    ELSE Sgn(m) * Larger(Abs(m) \div GCD(Abs(m), Abs(n)),
                         Abs(n) \div GCD(Abs(m), Abs(n)), q)

\* The sign of the real.
SignOf(x) == SurdSign(x.a, x.b, x.q)

\* x < y and x = y of the reals
Less(x, y) == SignOf(Minus(x, y, "unknown")) < 0
Same(x, y) == SignOf(Minus(x, y, "unknown")) = 0

\* The place of a float64 beside the float64 nearest to its real.
Rank(fl) ==
    CASE fl = "below" -> -1
      [] fl = "nearest" -> 0
      [] fl = "above" -> 1

\* The comparison of two float64: -1, 0 or 1 for x < y, x == y, x > y.  Two
\* float64 on the same side of the nearest one are not compared.
CompareAt(sign, x, y) ==
    IF sign # 0 THEN sign
    ELSE CASE Rank(x.fl) # Rank(y.fl) \/ x.fl = "nearest" -> Sgn(Rank(x.fl) - Rank(y.fl))
Compare(x, y) == CompareAt(SignOf(Minus(x, y, "unknown")), x, y)

\* x < y and x > y of the code
Lt(x, y) == Compare(x, y) < 0
Gt(x, y) == Compare(x, y) > 0

\* Of two float64 x and y of one real, the side of the smaller (below =
\* TRUE) or of the larger one.  A percentage level that is a whole number
\* is exact at the prices and returns of the table of the ROI gate, and so
\* the same float64 as a whole band.
TieSide(x, y, below) ==
    IF x.fl = y.fl THEN x.fl
    ELSE IF {x.fl, y.fl} \subseteq {"below", "nearest", "above"}
    THEN IF (Rank(x.fl) < Rank(y.fl)) = below THEN x.fl ELSE y.fl
    ELSE IF IsWhole(x) /\ {x.fl, y.fl} = {"level", "nearest"} THEN "level"
    ELSE "unknown"

\* Of x and y, whose difference x - y has the sign given, the smaller
\* (below = TRUE) or the larger one.
Pick(sign, x, y, below) ==
    IF sign = 0 THEN [x EXCEPT !.fl = TieSide(x, y, below)]
    ELSE IF (sign < 0) = below THEN x
    ELSE y

\* math.Min, math.Max
Min(x, y) == Pick(SignOf(Minus(x, y, "unknown")), x, y, TRUE)
Max(x, y) == Pick(SignOf(Minus(x, y, "unknown")), x, y, FALSE)

\* math.Abs
AbsOf(x) == IF SignOf(x) < 0 THEN Neg(x) ELSE x

(***************************************************************************)
(* signal.Generator: the volatility classifier.                            *)
(***************************************************************************)
BandScore == 30
RSIScore == 25
VolumeScore == 25
PriceChangeScore == 20

\* band*0.98 and band*1.02: the float64 product of a whole band is exact
\* when the real product is whole.
Scaled(band, hundredths) ==
    Scale(band, hundredths, 100,
          IF band.fl = "nearest" /\ IsWhole(band) /\ (band.a * hundredths) % 100 = 0
          THEN "nearest" ELSE "unknown")

\* currentPrice > upperBand*0.98
NearUpper(i) == Gt(i.price, Scaled(i.upper_band, 98))
\* currentPrice < lowerBand*1.02
NearLower(i) == Lt(i.price, Scaled(i.lower_band, 102))

\* Mutant: band proximity is awarded for each band the price is close to.
calculateVolatilityScorePerBand(indicators, params) ==
      (IF NearUpper(indicators) THEN BandScore ELSE 0)
    + (IF NearLower(indicators) THEN BandScore ELSE 0)
    + (IF \/ Gt(indicators.rsi, Whole(params.RSIOverbought))
          \/ Lt(indicators.rsi, Whole(params.RSIOversold))
       THEN RSIScore ELSE 0)
    + (IF Gt(indicators.volume_ratio, Whole(params.VolumeThreshold))
       THEN VolumeScore ELSE 0)
    + (IF Gt(AbsOf(indicators.price_change), Frac(params.MinVolatilityPercent, 10))
       THEN PriceChangeScore ELSE 0)

calculateVolatilityScore(indicators, params) ==
      (IF NearUpper(indicators) \/ NearLower(indicators) THEN BandScore ELSE 0)
    + (IF \/ Gt(indicators.rsi, Whole(params.RSIOverbought))
          \/ Lt(indicators.rsi, Whole(params.RSIOversold))
       THEN RSIScore ELSE 0)
    + (IF Gt(indicators.volume_ratio, Whole(params.VolumeThreshold))
       THEN VolumeScore ELSE 0)
    + (IF Gt(AbsOf(indicators.price_change), Frac(params.MinVolatilityPercent, 10))
       THEN PriceChangeScore ELSE 0)

\* Mutant: only an uptrend with momentum counts as bullish.
BullishUptrendOnly(indicators) ==
    /\ Gt(indicators.price_change, Whole(0))
    /\ Gt(indicators.rsi, Whole(50))
    /\ Lt(indicators.rsi, Whole(70))

\* Bullish conditions: oversold, or uptrend with momentum.
Bullish(indicators) ==
    \/ NearLower(indicators) /\ Lt(indicators.rsi, Whole(30))
    \/ /\ Gt(indicators.price_change, Whole(0))
       /\ Gt(indicators.rsi, Whole(50))
       /\ Lt(indicators.rsi, Whole(70))

\* Mutant: a downtrend counts as bearish at any RSI below 50.
BearishBelowFifty(indicators) ==
    \/ NearUpper(indicators) /\ Gt(indicators.rsi, Whole(70))
    \/ /\ Lt(indicators.price_change, Whole(0))
       /\ Lt(indicators.rsi, Whole(50))

\* Bearish conditions: overbought, or downtrend with momentum.
Bearish(indicators) ==
    \/ NearUpper(indicators) /\ Gt(indicators.rsi, Whole(70))
    \/ /\ Lt(indicators.price_change, Whole(0))
       /\ Lt(indicators.rsi, Whole(50))
       /\ Gt(indicators.rsi, Whole(30))

determineSignalType(indicators) ==
    IF Bullish(indicators) THEN "BUY"
    ELSE IF Bearish(indicators) THEN "SELL"
    ELSE "HOLD"

\* currentPrice*(1 + tenths/1000), for tenths of a percent of either sign
Level(currentPrice, tenths, fl) == Scale(currentPrice, 1000 + tenths, 1000, fl)

\* Mutant: the target is the band whenever the band lies beyond the
\* percentage level.
calculatePriceLevelsAtBand(currentPrice, signalType, indicators, params) ==
    IF signalType = "BUY"
    THEN <<Max(indicators.upper_band, Level(currentPrice, params.MinExpectedROI, "level")),
           Max(indicators.lower_band, Level(currentPrice, -params.StopLossPercent, "unknown"))>>
    ELSE <<Min(indicators.lower_band, Level(currentPrice, -params.MinExpectedROI, "level")),
           Min(indicators.upper_band, Level(currentPrice, params.StopLossPercent, "unknown"))>>

\* <<targetPrice, stopLoss>>
calculatePriceLevels(currentPrice, signalType, indicators, params) ==
    IF signalType = "BUY"
    THEN <<Min(indicators.upper_band, Level(currentPrice, params.MinExpectedROI, "level")),
           Max(indicators.lower_band, Level(currentPrice, -params.StopLossPercent, "unknown"))>>
    ELSE <<Max(indicators.lower_band, Level(currentPrice, -params.MinExpectedROI, "level")),
           Min(indicators.upper_band, Level(currentPrice, params.StopLossPercent, "unknown"))>>

\* The prices, in whole dollars, and the values of MinExpectedROI, in tenths
\* of a percent, for which the rounding of the float64 operations of the
\* return to the percentage level is tabulated.
GatePrices == 90..110
GateReturns == {5, 10, 15, 20, 25, 30, 35, 40}

\* The prices p at which the float64 value of the return to the percentage
\* level, (p*(1+r/100) - p) / p * 100 or (p - p*(1-r/100)) / p * 100, is
\* below r, as 1.4999999999999842 for a BUY at 98 with 1.5, and those at
\* which it is above r, as 2.0000000000000018 for a BUY at 102 with 2.0; at
\* the other prices it is r.
ROIBelowAt(signalType, r) ==
    CASE r = 5 -> IF signalType = "BUY" THEN GatePrices
                ELSE {91, 92, 94, 95, 97, 98, 101, 104, 107, 110}
      [] r = 10 -> {91, 94, 97, 99, 102, 105, 108, 110}
      [] r = 15 -> IF signalType = "BUY" THEN GatePrices
                ELSE {90, 91, 92, 93, 94, 95, 96, 97, 98, 99}
      [] r = 20 -> {90, 93, 94, 97, 101, 104, 108}
      [] r = 25 -> IF signalType = "BUY" THEN GatePrices
                ELSE {92, 97, 102, 107}
      [] r = 30 -> {96, 97, 98, 99, 109, 110}
      [] r = 35 -> IF signalType = "BUY" THEN GatePrices
                ELSE {92, 96, 97, 101, 105, 109}
      [] r = 40 -> {93, 95, 102, 104, 109}
ROIAboveAt(signalType, r) ==
    CASE r = 5 -> IF signalType = "BUY" THEN {}
                ELSE {90, 93, 96, 99, 102, 103, 105, 106, 108, 109}
      [] r = 10 -> {90, 92, 93, 95, 96, 98, 101, 103, 104, 106, 107, 109}
      [] r = 15 -> IF signalType = "BUY" THEN {}
                ELSE {101, 102, 103, 104, 105, 106, 107, 108, 109, 110}
      [] r = 20 -> {91, 92, 95, 96, 98, 99, 102, 103, 105, 106, 107, 109, 110}
      [] r = 25 -> IF signalType = "BUY" THEN {}
                ELSE {91, 93, 94, 96, 98, 99, 101, 103, 104, 106, 108, 109}
      [] r = 30 -> {90, 91, 92, 93, 94, 95, 101, 102, 103, 104, 105, 106, 107, 108}
      [] r = 35 -> IF signalType = "BUY" THEN {}
                ELSE {90, 91, 93, 94, 95, 98, 99, 100, 102, 103, 104, 106, 107, 108, 110}
      [] r = 40 -> {90, 91, 92, 94, 96, 97, 98, 99, 101, 103, 105, 106, 107, 108, 110}

\* The float64 of the return to a target.  The return to the percentage
\* level of the code is a tie with MinExpectedROI as a real, the table has
\* its side; the side of another return is not known.
ROISide(currentPrice, targetPrice, signalType, roi) ==
    IF /\ targetPrice.fl = "level"
       /\ IsWhole(currentPrice) /\ currentPrice.a \in GatePrices
       /\ roi.b = 0 /\ (10 * roi.a) % roi.d = 0
       /\ ((10 * roi.a) \div roi.d) \in GateReturns
    THEN LET r == (10 * roi.a) \div roi.d
         IN  IF currentPrice.a \in ROIBelowAt(signalType, r) THEN "below"
             ELSE IF currentPrice.a \in ROIAboveAt(signalType, r) THEN "above"
             ELSE "nearest"
    ELSE "unknown"

\* (targetPrice - currentPrice) / currentPrice * 100, resp. with the sides swapped
calculateExpectedROI(currentPrice, targetPrice, signalType) ==
    LET gain == IF signalType = "BUY" THEN Minus(targetPrice, currentPrice, "unknown")
                ELSE Minus(currentPrice, targetPrice, "unknown")
        roi == Over(Scale(gain, 100, 1, "unknown"), currentPrice, "unknown")
    IN  [roi EXCEPT !.fl = ROISide(currentPrice, targetPrice, signalType, roi)]

\* Mutant: the gate only rejects a negative return.
FailsROIGateBelowZero(expectedROI, params) == Lt(expectedROI, Whole(0))

\* if expectedROI < g.config.VolatilityParams.MinExpectedROI
FailsROIGate(expectedROI, params) == Lt(expectedROI, Frac(params.MinExpectedROI, 10))

analyzeVolatilityPatterns(technicalData, params) ==
    LET currentPrice == technicalData.price
        volatilityScore == calculateVolatilityScore(technicalData, params)
        signalType == determineSignalType(technicalData)
        levels == calculatePriceLevels(currentPrice, signalType, technicalData, params)
        expectedROI == calculateExpectedROI(currentPrice, levels[1], signalType)
    IN  IF volatilityScore < params.ConfidenceThreshold THEN NoSignal
        ELSE IF signalType = "HOLD" THEN NoSignal
        ELSE IF FailsROIGate(expectedROI, params) THEN NoSignal
        ELSE [Type |-> signalType, Price |-> currentPrice, TargetPrice |-> levels[1],
              StopLoss |-> levels[2], ExpectedROI |-> expectedROI,
              Confidence |-> volatilityScore, TechnicalData |-> technicalData]

\* One call of analyzeVolatilityPatterns on the instrument's indicator set.
Analyze ==
    /\ last.op = "New"
    /\ sig' = analyzeVolatilityPatterns(ind, cfg)
    /\ last' = Called("analyzeVolatilityPatterns", NoRet)
    /\ UNCHANGED <<tmVars, rmVars, now, ind, cfg, held, mmVars, gsVars, pmVars, thVars, lkVars>>

IndicatorPrices == {95, 100, 105}
IndicatorBands == {94, 99, 101, 106}
IndicatorRSI == {25, 40, 60, 75}
IndicatorVolumeRatios == {100, 200}
IndicatorPriceChanges == {-2, 0, 2}

\* Indicator sets of whole numbers, as calculateTechnicalIndicators builds
\* them.  The bands are mean -+ 2 deviations of the last 20 prices, the
\* current price among them: one sample of 20 lies at most sqrt(19)
\* deviations from the mean, so the price leaves the band by at most
\* (sqrt(19) - 2) / 4 > 0.58 of its width.
IndicatorSets ==
    {[price |-> Whole(i.price), upper_band |-> Whole(i.upper_band),
      lower_band |-> Whole(i.lower_band), rsi |-> Whole(i.rsi),
      volume_ratio |-> Whole(i.volume_ratio), price_change |-> Whole(i.price_change)] :
        i \in {j \in [price : IndicatorPrices, upper_band : IndicatorBands,
                      lower_band : IndicatorBands, rsi : IndicatorRSI,
                      volume_ratio : IndicatorVolumeRatios,
                      price_change : IndicatorPriceChanges] :
                   /\ j.lower_band < j.upper_band
                   /\ (j.lower_band - j.price) * 100 <= 58 * (j.upper_band - j.lower_band)
                   /\ (j.price - j.upper_band) * 100 <= 58 * (j.upper_band - j.lower_band)}}

\* config.VolatilityParams: the thresholds of CreateDefaultConfig, with the
\* MinExpectedROI values 1.5 (the default), 2.0 and 3.0.
VolatilityParams ==
    [MinVolatilityPercent : {10}, MinExpectedROI : {15, 20, 30}, StopLossPercent : {5, 10},
     RSIOverbought : {70}, RSIOversold : {30}, VolumeThreshold : {150},
     ConfidenceThreshold : {60, 70}]

(***************************************************************************)
(* signal.Generator: from the price and volume series to the signals.      *)
(***************************************************************************)
MinDataPoints == 30
VolumePeriod == 10

RECURSIVE SumSeq(_)
SumSeq(values) == IF values = <<>> THEN 0 ELSE Head(values) + SumSeq(Tail(values))

\* values[len(values)-period:]
LastOf(values, period) == SubSeq(values, Len(values) - period + 1, Len(values))

\* Mutant: a window shorter than the period is averaged over what it holds.
calculateSMAOfAvailable(values, period) ==
    IF values = <<>> THEN Whole(0)
    ELSE IF Len(values) < period THEN Frac(SumSeq(values), Len(values))
    ELSE Frac(SumSeq(LastOf(values, period)), period)

\* sum / float64(period): the sum of whole samples is exact and the
\* quotient is rounded once.
calculateSMA(values, period) ==
    IF Len(values) < period THEN Whole(0)
    ELSE Frac(SumSeq(LastOf(values, period)), period)

\* math.Sqrt(sumSquaredDiff / float64(period)): value - sma is
\* (period * value - sum) / period, so the deviation is
\* sqrt(sum of (period * value - sum)^2 / period) / period, and the sum of
\* the squares is a multiple of period.  The float64 is exact on a flat
\* window.
calculateStdDev(values, period) ==
    IF Len(values) < period THEN Whole(0)
    ELSE LET window == LastOf(values, period)
             sum == SumSeq(window)
             sumSquaredDiff ==
                 SumSeq([i \in 1..period |->
                            (period * window[i] - sum) * (period * window[i] - sum)])
         IN  Num(0, 1, sumSquaredDiff \div period, period,
                 IF sumSquaredDiff = 0 THEN "nearest" ELSE "unknown")

\* The whole values of 100 - 100 / (1 + rs) that the float64 operations
\* miss, from below and from above; they give the other whole values
\* exactly.
RSIBelow == {3, 12, 17, 38, 40, 42, 44, 52, 56, 57}
RSIAbove == {9, 37, 43, 45, 49}

\* 100 - 100 / (1 + gains / losses) is 100 * gains / (gains + losses); the
\* float64 is a function of the quotient gains / losses.
calculateRSI(prices, period) ==
    IF Len(prices) < period + 1 THEN Whole(50)
    ELSE LET change(i) == prices[i] - prices[i - 1]
             window == (Len(prices) - period + 1)..Len(prices)
             gains == SumOver({i \in window : change(i) >= 0},
                              [i \in window |-> change(i)])
             losses == SumOver({i \in window : change(i) < 0},
                               [i \in window |-> -change(i)])
             rsi == (100 * gains) \div (gains + losses)
         IN  IF losses = 0 THEN Whole(100)
             ELSE Num(100 * gains, 0, 0, gains + losses,
                      IF (100 * gains) % (gains + losses) # 0 THEN "unknown"
                      ELSE IF rsi \in RSIBelow THEN "below"
                      ELSE IF rsi \in RSIAbove THEN "above"
                      ELSE "nearest")

\* The changes of whole tenths of a percent, up to 10 %, that the float64
\* operations (current - previous) / previous * 100 miss, from below and
\* from above in absolute value; they give the others exactly.
PriceChangeBelow == {9, 11, 18, 22, 36, 37, 44, 59, 72, 74, 88}
PriceChangeAbove == {7, 14, 17, 28, 29, 33, 34, 35, 41, 56, 58, 66, 68, 70, 82, 97}

\* n / d has a power of two, up to 4096, as its denominator: its float64
\* and the float64 of a hundred times it are exact.
Dyadic(n, d) == d \div GCD(n, d) \in {1, 2, 4, 8, 16, 32, 64, 128, 256, 512, 1024, 2048, 4096}

\* The side of the float64 of rise / previous * 100.
PercentSide(rise, previous, tenths) ==
    IF Dyadic(rise, previous) THEN "nearest"
    ELSE IF (1000 * rise) % previous # 0 \/ tenths > 100 THEN "unknown"
    ELSE IF tenths \in PriceChangeBelow THEN "below"
    ELSE IF tenths \in PriceChangeAbove THEN "above"
    ELSE "nearest"

\* rise / previous * 100, for whole rise >= 0 and previous > 0
PercentOf(rise, previous) ==
    Num(100 * rise, 0, 0, previous, PercentSide(rise, previous, (1000 * rise) \div previous))

\* (current - previous) / previous * 100, for a previous value above 0; the
\* float64 is a function of the quotient, and that of a fall is the
\* negative of that of the rise.
PercentChange(previous, current) ==
    IF current < previous THEN Neg(PercentOf(previous - current, previous))
    ELSE PercentOf(current - previous, previous)

calculatePriceChange(prices) ==
    IF Len(prices) < 2 THEN Whole(0)
    ELSE PercentChange(prices[Len(prices) - 1], prices[Len(prices)])

\* currentVolume / avgVolume * 100, for an average above 0: exact when the
\* average is whole and the quotient a whole number of quarters.
VolumeRatio(currentVolume, avgVolume) ==
    Over(Whole(100 * currentVolume), avgVolume,
         IF IsWhole(avgVolume) /\ (4 * currentVolume) % avgVolume.a = 0
         THEN "nearest" ELSE "unknown")

calculateTechnicalIndicators(data, params, currentPrice) ==
    LET sma == calculateSMA(data.Prices, params.BollingerPeriod)
        stdDev == calculateStdDev(data.Prices, params.BollingerPeriod)
        bandSide == IF SignOf(stdDev) = 0 THEN "nearest" ELSE "unknown"
        avgVolume == calculateSMA(data.Volumes, VolumePeriod)
        currentVolume == data.Volumes[Len(data.Volumes)]
    IN  [price |-> Whole(currentPrice),
         sma |-> sma,
         upper_band |-> Plus(sma, Scale(stdDev, params.BollingerDeviation, 1, "unknown"),
                             bandSide),
         lower_band |-> Minus(sma, Scale(stdDev, params.BollingerDeviation, 1, "unknown"),
                              bandSide),
         rsi |-> calculateRSI(data.Prices, params.RSIPeriod),
         volume_ratio |-> VolumeRatio(currentVolume, avgVolume),
         price_change |-> calculatePriceChange(data.Prices)]

\* analyzeVolatilityPatterns from the series: the signal of the instrument, or
\* NoSignal.
ForSymbol(symbol, signal) ==
    IF signal = NoSignal THEN NoSignal ELSE [Symbol |-> symbol] @@ signal
analyzeSymbol(symbol, data, params) ==
    ForSymbol(symbol,
              analyzeVolatilityPatterns(
                  calculateTechnicalIndicators(data, params, data.Prices[Len(data.Prices)]),
                  params))

\* Mutant: only the prices are counted.
EnoughPrices(data) == Len(data.Prices) >= MinDataPoints

\* not (len(data.Prices) < 30 || len(data.Volumes) < 30)
EnoughData(data) ==
    Len(data.Prices) >= MinDataPoints /\ Len(data.Volumes) >= MinDataPoints

\* The instruments of the map that yield a signal.
Generated ==
    {symbol \in DOMAIN marketData :
        /\ EnoughData(marketData[symbol])
        /\ analyzeSymbol(symbol, marketData[symbol], cfg) # NoSignal}

\* The map is ranged over in an order of the runtime's choosing.
GenerateSignals ==
    /\ \E order \in Perms(Generated) :
          signals' = [k \in 1..Len(order) |->
                         analyzeSymbol(order[k], marketData[order[k]], cfg)]
    /\ last' = Called("GenerateSignals", NoRet)
    /\ UNCHANGED <<tmVars, rmVars, now, sgVars, held, mmVars, marketData, pmVars, thVars, lkVars>>

\* The MarketData given to the generator: a run of flat samples (prices at
\* $100, volumes of 1000), then the last two.
MaxFlat == 28
FlatLengths == {25, MaxFlat}
RisingTails == {<<100, 100>>, <<100, 102>>, <<101, 102>>, <<102, 102>>}
FallingTails == {<<100, 98>>, <<98, 98>>}
VolumeTails == {<<1000, 1000>>, <<6000, 6000>>}

SeriesOf(n, v, tail) == [i \in 1..n |-> v] \o tail

\* CreateDefaultConfig
DefaultParams ==
    [MinVolatilityPercent |-> 10, MinExpectedROI |-> 15, StopLossPercent |-> 5,
     BollingerPeriod |-> 20, BollingerDeviation |-> 2, RSIPeriod |-> 14,
     RSIOverbought |-> 70, RSIOversold |-> 30, VolumeThreshold |-> 150,
     ConfidenceThreshold |-> 70]

\* The defaults and a configuration asking for 2.0 % at a threshold of 0.6.
GeneratorParams ==
    {DefaultParams,
     [DefaultParams EXCEPT !.MinExpectedROI = 20, !.StopLossPercent = 10,
                           !.ConfidenceThreshold = 60]}

\* Every instrument of the map has one of the series, rising or falling.
MarketDataOf(params) ==
    LET tails == RisingTails \cup FallingTails
        series == {[Prices |-> SeriesOf(n, 100, tail),
                    Volumes |-> SeriesOf(m, 1000, vtail)] :
                      n \in FlatLengths, tail \in tails,
                      m \in FlatLengths, vtail \in VolumeTails}
    IN  UNION {[D -> series] : D \in SUBSET Symbols}

(***************************************************************************)
(* monitor.MarketMonitor                                                   *)
(*                                                                         *)
(* A channel is the number of the make that made it.  Stop and the first  *)
(* part of Start run under the monitor's mutex; Start releases it before   *)
(* it launches the goroutine, so other calls can run in between.           *)
(* monitorMarket takes no lock, and reads the stopChan field anew each     *)
(* time it reaches its select.  A goroutine of monitorMarket is a record:  *)
(* pc, where it stands ("go" while its Start has not launched it yet);     *)
(* ch, the channel its select waits on; due, whether nextCheckTime has     *)
(* passed when it reaches the select; own, the channel that its Start      *)
(* made.                                                                   *)
(***************************************************************************)
NewMarketMonitor ==
    /\ isRunning = FALSE
    /\ stopChan = 0
    /\ made = 1
    /\ closedChans = {}
    /\ loops = <<>>
    /\ started = FALSE

NoChan == -1

\* withinHours, err := m.config.IsWithinTradingHours()
TradingHoursResults == {"error", "outside", "within"}

\* if m.isRunning, in Start
MonitorRunning == isRunning

\* Start up to m.mu.Unlock(): the flag and the channel.  The call goes on to
\* launch its goroutine, in GoMonitorMarket.
Start ==
    /\ IF MonitorRunning
       THEN /\ last' = Called("Start", [NoRet EXCEPT !.err = "already running"])
            /\ UNCHANGED mmVars
       ELSE /\ Len(loops) < MaxLoops
            /\ isRunning' = TRUE
            /\ stopChan' = made
            /\ made' = made + 1
            /\ loops' = Append(loops, [pc |-> "go", ch |-> NoChan, due |-> TRUE,
                                        own |-> made])
            /\ started' = TRUE
            /\ last' = Called("Start", NoRet)
            /\ UNCHANGED closedChans
    /\ UNCHANGED <<tmVars, rmVars, now, sgVars, held, gsVars, pmVars, thVars, lkVars>>

\* go m.monitorMarket(): the Start that made the l-th channel launches its
\* goroutine and returns.
GoMonitorMarket(l) ==
    /\ l \in 1..Len(loops)
    /\ loops[l].pc = "go"
    /\ loops' = [loops EXCEPT ![l] = [@ EXCEPT !.pc = "select"]]
    /\ last' = Called("go monitorMarket", NoRet)
    /\ UNCHANGED <<isRunning, stopChan, made, closedChans, started>>
    /\ UNCHANGED <<tmVars, rmVars, now, sgVars, held, gsVars, pmVars, thVars, lkVars>>

\* Mutant: Stop takes every monitor for a running one.
MonitorNeverStopped == FALSE

\* if !m.isRunning, in Stop
MonitorNotRunning == ~isRunning

Stop ==
    /\ IF MonitorNotRunning
       THEN /\ last' = Called("Stop", [NoRet EXCEPT !.err = "not running"])
            /\ UNCHANGED mmVars
       ELSE /\ closedChans' = closedChans \cup {stopChan}
            /\ isRunning' = FALSE
            /\ started' = FALSE
            /\ last' = Called("Stop", NoRet)
            /\ UNCHANGED <<stopChan, made, loops>>
    /\ UNCHANGED <<tmVars, rmVars, now, sgVars, held, gsVars, pmVars, thVars, lkVars>>

IsRunning ==
    /\ last' = Called("IsRunning", [NoRet EXCEPT !.reached = isRunning])
    /\ UNCHANGED <<tmVars, rmVars, now, sgVars, held, mmVars, gsVars, pmVars, thVars, lkVars>>

\* case <-time.After(...): the trading-hours test, and on "within" the market
\* check begins; otherwise nextCheckTime is a minute ahead and the loop goes
\* round.
TimerCase(l, hours) ==
    loops' = [loops EXCEPT ![l] = [@ EXCEPT !.pc = IF hours = "within" THEN "check" ELSE "select",
                                            !.ch = NoChan, !.due = FALSE]]

\* case <-m.stopChan: return
StopCase(l) ==
    loops' = [loops EXCEPT ![l] = [@ EXCEPT !.pc = "done", !.ch = NoChan]]

\* The select is entered: m.stopChan is read, and of the cases that can
\* proceed one is chosen; with none the goroutine blocks on both channels.
Select(l) ==
    /\ loops[l].pc = "select"
    /\ \/ stopChan \in closedChans /\ StopCase(l)
       \/ loops[l].due /\ \E hours \in TradingHoursResults : TimerCase(l, hours)
       \/ /\ stopChan \notin closedChans
          /\ ~loops[l].due
          /\ loops' = [loops EXCEPT ![l] = [@ EXCEPT !.pc = "blocked", !.ch = stopChan]]

\* The channel the select blocks on is closed.
Wake(l) ==
    /\ loops[l].pc = "blocked"
    /\ loops[l].ch \in closedChans
    /\ StopCase(l)

\* The timer of the blocked select fires first.
TimerFires(l) ==
    /\ loops[l].pc = "blocked"
    /\ loops[l].ch \notin closedChans
    /\ \E hours \in TradingHoursResults : TimerCase(l, hours)

\* performMarketCheck returns; nextCheckTime is CheckInterval seconds ahead.
CheckDone(l) ==
    /\ loops[l].pc = "check"
    /\ loops' = [loops EXCEPT ![l] = [@ EXCEPT !.pc = "select", !.due = FALSE]]

\* One step of the l-th goroutine of monitorMarket.
monitorMarket(l) ==
    /\ l \in 1..Len(loops)
    /\ \/ Select(l)
       \/ Wake(l)
       \/ TimerFires(l)
       \/ CheckDone(l)
    /\ last' = Called("monitorMarket", NoRet)
    /\ UNCHANGED <<isRunning, stopChan, made, closedChans, started>>
    /\ UNCHANGED <<tmVars, rmVars, now, sgVars, held, gsVars, pmVars, thVars, lkVars>>

(***************************************************************************)
(* The indicators of a window of any length.                               *)
(***************************************************************************)
\* One call of calculateTechnicalIndicators on the instrument's series.
Indicators ==
    /\ last.op = "New"
    /\ \E symbol \in DOMAIN marketData :
          LET data == marketData[symbol]
          IN  ind' = calculateTechnicalIndicators(data, cfg, data.Prices[Len(data.Prices)])
    /\ last' = Called("calculateTechnicalIndicators", NoRet)
    /\ UNCHANGED <<tmVars, rmVars, now, cfg, sig, held, mmVars, gsVars, pmVars, thVars, lkVars>>

\* Windows of 2 to MaxWindow + 2 prices, beside 30 volumes.
MaxWindow == 20
WindowLengths == 0..MaxWindow

\* The periods of CreateDefaultConfig, and a Bollinger period of 10.
WindowParams == {DefaultParams, [DefaultParams EXCEPT !.BollingerPeriod = 10]}

WindowData ==
    {[Prices |-> SeriesOf(n, 100, tail), Volumes |-> SeriesOf(MaxFlat, 1000, vtail)] :
        n \in WindowLengths, tail \in RisingTails \cup FallingTails, vtail \in VolumeTails}

(***************************************************************************)
(* performance.Monitor                                                     *)
(*                                                                         *)
(* Units: prices in whole dollars; an ROI, a profit, a rate and an average  *)
(* are float64 of the code, numbers as those of signal.Generator, in        *)
(* percent.  A result keeps the fields the metrics are computed from.       *)
(***************************************************************************)
NoMetrics ==
    [SignalsCount |-> 0, SuccessCount |-> 0, FailureCount |-> 0, PendingCount |-> 0,
     SuccessRate |-> Whole(0), AverageROI |-> Whole(0), TotalProfit |-> Whole(0),
     SymbolPerformance |-> <<>>, DailyPerformance |-> <<>>]

NewMonitor ==
    /\ results = <<>>
    /\ metrics = NoMetrics
    /\ added = 0

\* case StatusSuccess
IsSuccess(status) == status = "SUCCESS"

\* Mutant: an expired signal is not a failure.
IsFailureOnly(status) == status = "FAILURE"

\* case StatusFailure, case StatusExpired
IsFailure(status) == status \in {"FAILURE", "EXPIRED"}

\* A float64 that is a whole number.
Exact(x) == IsWhole(x) /\ x.fl = "nearest"

\* x + y of the code: exact for two whole numbers
Total(x, y) == Plus(x, y, IF Exact(x) /\ Exact(y) THEN "nearest" ELSE "unknown")

\* TotalProfit after the first n results, of those at the positions I:
\* += r.ActualROI for a success, -= r.ActualROI for a failure.
RECURSIVE Profit(_, _, _)
Profit(rs, I, n) ==
    IF n = 0 THEN Whole(0)
    ELSE IF n \notin I THEN Profit(rs, I, n - 1)
    ELSE IF rs[n].Status = "SUCCESS" THEN Total(Profit(rs, I, n - 1), rs[n].ActualROI)
    ELSE IF rs[n].Status = "FAILURE" THEN Total(Profit(rs, I, n - 1), Neg(rs[n].ActualROI))
    ELSE Profit(rs, I, n - 1)

\* The counts and the profit of the results rs at the positions I, as one pass
\* of the loop of updateMetrics adds them up.
Tally(rs, I) ==
    LET success == {i \in I : IsSuccess(rs[i].Status)}
        failure == {i \in I : ~IsSuccess(rs[i].Status) /\ IsFailure(rs[i].Status)}
    IN  [SignalsCount |-> Cardinality(I),
         SuccessCount |-> Cardinality(success),
         FailureCount |-> Cardinality(failure),
         PendingCount |-> Cardinality(I \ (success \cup failure)),
         TotalProfit |-> Profit(rs, I, Len(rs))]

\* float64(SuccessCount) / float64(completedCount) * 100, or what it was
SuccessRate(t, was) ==
    IF t.SuccessCount + t.FailureCount > 0
    THEN Num(100 * t.SuccessCount, 0, 0, t.SuccessCount + t.FailureCount,
             IF Dyadic(t.SuccessCount, t.SuccessCount + t.FailureCount)
             THEN "nearest" ELSE "unknown")
    ELSE was

\* TotalProfit / float64(completedCount), or what it was
AverageROI(t, was) ==
    IF t.SuccessCount + t.FailureCount > 0
    THEN Over(t.TotalProfit, Whole(t.SuccessCount + t.FailureCount),
              IF /\ Exact(t.TotalProfit)
                 /\ Dyadic(Abs(t.TotalProfit.a), t.SuccessCount + t.FailureCount)
              THEN "nearest" ELSE "unknown")
    ELSE was

\* updateMetrics, on the results rs that the caller has just written
updateMetrics(rs) ==
    LET all == DOMAIN rs
        total == Tally(rs, all)
    IN  metrics' =
            total @@
            [SuccessRate |-> SuccessRate(total, metrics.SuccessRate),
             AverageROI |-> AverageROI(total, metrics.AverageROI),
             SymbolPerformance |->
                 [s \in {rs[i].Symbol : i \in all} |->
                     LET t == Tally(rs, {i \in all : rs[i].Symbol = s})
                     IN  t @@ [Symbol |-> s, SuccessRate |-> SuccessRate(t, Whole(0)),
                               AverageROI |-> AverageROI(t, Whole(0))]],
             DailyPerformance |->
                 [d \in {rs[i].GeneratedAt : i \in all} |->
                     LET t == Tally(rs, {i \in all : rs[i].GeneratedAt = d})
                     IN  t @@ [Date |-> d, SuccessRate |-> SuccessRate(t, Whole(0))]]]

MaxSignals == 2

AddSignal(s) ==
    /\ Len(results) < MaxSignals
    /\ LET rs == Append(results,
                        [SignalID |-> s.ID, Symbol |-> s.Symbol, Type |-> s.Type,
                         EntryPrice |-> s.Price, ExitPrice |-> 0, ActualROI |-> Whole(0),
                         Status |-> "ACTIVE", GeneratedAt |-> s.GeneratedAt])
       IN  results' = rs /\ updateMetrics(rs)
    /\ added' = added + 1
    /\ last' = Called("AddSignal", NoRet)
    /\ UNCHANGED <<tmVars, rmVars, now, sgVars, held, mmVars, gsVars, thVars, lkVars>>

\* (exitPrice - EntryPrice) / EntryPrice * 100 for a BUY, the sides swapped
\* for any other type
ActualROI(result, exitPrice) ==
    IF result.Type = "BUY" THEN PercentChange(result.EntryPrice, exitPrice)
    ELSE Neg(PercentChange(result.EntryPrice, exitPrice))

UpdateSignalStatus(signalID, status, exitPrice) ==
    /\ LET found == {i \in DOMAIN results : results[i].SignalID = signalID}
       IN  IF found = {}
           THEN UNCHANGED <<results, metrics>>
           ELSE LET i == CHOOSE j \in found : \A k \in found : j <= k
                    rs == [results EXCEPT ![i] =
                              [@ EXCEPT !.Status = status, !.ExitPrice = exitPrice,
                                        !.ActualROI = ActualROI(results[i], exitPrice)]]
                IN  results' = rs /\ updateMetrics(rs)
    /\ last' = Called("UpdateSignalStatus", NoRet)
    /\ UNCHANGED <<tmVars, rmVars, now, sgVars, held, mmVars, gsVars, added, thVars, lkVars>>

\* The signals handed to AddSignal: the ID is made of symbol, type and time
\* of generation, as analyzeVolatilityPatterns makes it.
SignalDays == {0, 1}
SignalsAdded ==
    {[ID |-> <<"SIG", s, t, d>>, Symbol |-> s, Type |-> t, Price |-> 100, GeneratedAt |-> d] :
        s \in Symbols, t \in {"BUY", "SELL"}, d \in SignalDays}
SignalStatuses == {"ACTIVE", "SUCCESS", "FAILURE", "EXPIRED"}
\* One exit price: a BUY entered at 100 gains 25 % and a SELL loses 25 %.
ExitPrices == {125}
UnknownSignal == <<"SIG", "GOOGL", "BUY", 0>>

(***************************************************************************)
(* The trading window: RiskManager.ShouldCloseAllPositions and              *)
(* Config.IsWithinTradingHours.                                            *)
(*                                                                         *)
(* The clock is the instant time.Now() as its local time in               *)
(* America/New_York, to the nanosecond, with the number of hours that UTC  *)
(* is ahead of New York at that instant (4 in summer, 5 in winter).        *)
(* time.LoadLocation knows "America/New_York" on a host that has the time  *)
(* zone database (zoneinfo); the image of the repository's Dockerfile, a   *)
(* static binary on alpine, has none.  A time-of-day string of the         *)
(* configuration is the empty string, a text that time.Parse("15:04", ...)  *)
(* accepts, with its two numbers, or a text that it rejects.               *)
(***************************************************************************)
MarketCloseHour == 16
FlattenMargin == 5

\* time.Date(now.Year(), now.Month(), now.Day(), hour, min, 0, 0, loc), as the
\* minute of the day
MinuteOfDay(hour, min) == 60 * hour + min

\* The day after a day of the week.
Tomorrow ==
    [Monday |-> "Tuesday", Tuesday |-> "Wednesday", Wednesday |-> "Thursday",
     Thursday |-> "Friday", Friday |-> "Saturday", Saturday |-> "Sunday",
     Sunday |-> "Monday"]

\* The day before a day of the week.
Yesterday == [d \in DOMAIN Tomorrow |-> CHOOSE e \in DOMAIN Tomorrow : Tomorrow[e] = d]

\* time.LoadLocation(name): "" and "UTC" are UTC without the database, a
\* name of the database is its zone where the database is installed, and
\* any other name is an error.  "Local" and the other zones of the database
\* are outside the model.
LoadLocation(name) ==
    CASE name \in {"", "UTC"} -> "UTC"
      [] name = "America/New_York" ->
            IF zoneinfo THEN "America/New_York" ELSE "unknown time zone"
      [] name = "Invalid/TimeZone" -> "unknown time zone"

\* The wall clock t moved by a number of hours, less than a day.
AddHours(t, hours) ==
    IF t.hour + hours >= 24
    THEN [t EXCEPT !.hour = t.hour + hours - 24, !.weekday = Tomorrow[t.weekday]]
    ELSE IF t.hour + hours < 0
    THEN [t EXCEPT !.hour = t.hour + hours + 24, !.weekday = Yesterday[t.weekday]]
    ELSE [t EXCEPT !.hour = t.hour + hours]

\* now.In(loc) and now.UTC(), for the instant whose New York time is t
In(t, loc) == IF loc = "America/New_York" THEN t ELSE AddHours(t, t.utcAhead)

\* now.After(d), now.Before(d) and now.Equal(d) for d the start of the
\* minute m of now's day
After(t, m) ==
    \/ MinuteOfDay(t.hour, t.minute) > m
    \/ MinuteOfDay(t.hour, t.minute) = m /\ (t.second > 0 \/ t.nanosecond > 0)
Before(t, m) == MinuteOfDay(t.hour, t.minute) < m
Equal(t, m) == MinuteOfDay(t.hour, t.minute) = m /\ t.second = 0 /\ t.nanosecond = 0

\* now.Weekday() == time.Saturday || now.Weekday() == time.Sunday
IsWeekend(t) == t.weekday \in {"Saturday", "Sunday"}

\* "HH:MM"
HHMM(hour, min) == [text |-> "HH:MM", hour |-> hour, minute |-> min]
\* ""
NoTimeText == [text |-> "", hour |-> 0, minute |-> 0]
\* a text that is no time of day, as "25:61"
BadTimeText == [text |-> "25:61", hour |-> 0, minute |-> 0]

\* CreateDefaultConfig
DefaultTradingHours ==
    [StartTime |-> HHMM(9, 30), EndTime |-> HHMM(15, 30),
     Start |-> HHMM(9, 30), End |-> HHMM(15, 30),
     TimeZone |-> "America/New_York", Weekend |-> FALSE]

DefaultHours ==
    /\ clock = [weekday |-> "Monday", hour |-> 9, minute |-> 30, second |-> 0,
                nanosecond |-> 0, utcAhead |-> 4]
    /\ tradingHours = DefaultTradingHours
    /\ zoneinfo = TRUE

\* marketClose := time.Date(now.Year(), now.Month(), now.Day(), 16, 0, 0, 0, now.Location())
marketClose == MinuteOfDay(MarketCloseHour, 0)

\* Without the zone the time is taken as UTC less five hours, which is New
\* York's time in winter and an hour behind it in summer.
ShouldCloseAllPositions ==
    LET loc == LoadLocation("America/New_York")
        nowNY == IF loc = "unknown time zone" THEN AddHours(In(clock, "UTC"), -5)
                 ELSE In(clock, loc)
        fiveMinBeforeClose == marketClose - FlattenMargin
        should == IF IsWeekend(nowNY) THEN FALSE
                  ELSE After(nowNY, fiveMinBeforeClose) /\ Before(nowNY, marketClose)
    IN  /\ last' = Called("ShouldCloseAllPositions", [NoRet EXCEPT !.reached = should])
        /\ UNCHANGED <<tmVars, rmVars, now, sgVars, held, mmVars, gsVars, pmVars, thVars, lkVars>>

\* startTimeStr: StartTime, or Start when StartTime is empty
StartTimeStr(c) == IF c.StartTime.text = "" THEN c.Start ELSE c.StartTime
\* endTimeStr: EndTime, or End when EndTime is empty
EndTimeStr(c) == IF c.EndTime.text = "" THEN c.End ELSE c.EndTime

\* <<within, err>> at the instant whose New York time is t.  A text that
\* time.Parse accepted splits into two parts that Sscanf reads, so the
\* errors of l.222-251 have no input.
WithinTradingHours(c, t) ==
    LET loc == LoadLocation(c.TimeZone)
        nowLoc == In(t, loc)
        startTimeStr == StartTimeStr(c)
        endTimeStr == EndTimeStr(c)
        startTime == MinuteOfDay(startTimeStr.hour, startTimeStr.minute)
        endTime == MinuteOfDay(endTimeStr.hour, endTimeStr.minute)
    IN  IF loc = "unknown time zone" THEN <<FALSE, "invalid time zone">>
        ELSE IF ~c.Weekend /\ IsWeekend(nowLoc) THEN <<FALSE, "">>
        ELSE IF startTimeStr.text = "" THEN <<FALSE, "missing start time">>
        ELSE IF startTimeStr.text # "HH:MM" THEN <<FALSE, "invalid start time format">>
        ELSE IF endTimeStr.text = "" THEN <<FALSE, "missing end time">>
        ELSE IF endTimeStr.text # "HH:MM" THEN <<FALSE, "invalid end time format">>
        ELSE <<(Equal(nowLoc, startTime) \/ After(nowLoc, startTime))
                  /\ Before(nowLoc, endTime), "">>

IsWithinTradingHours ==
    LET ret == WithinTradingHours(tradingHours, clock)
    IN  /\ last' = Called("IsWithinTradingHours",
                          [NoRet EXCEPT !.reached = ret[1], !.err = ret[2]])
        /\ UNCHANGED <<tmVars, rmVars, now, sgVars, held, mmVars, gsVars, pmVars, thVars, lkVars>>

\* The instants around the start and the two ends, in New York, in UTC
\* and an hour after New York's, on three days, in summer and in winter: on
\* the minute, within it and at its last microsecond.
SubMinutes == {<<0, 0>>, <<30, 0>>, <<59, 999999000>>}
ClocksAt(hours, minutes) ==
    {[weekday |-> d, hour |-> h, minute |-> m, second |-> s[1],
      nanosecond |-> s[2], utcAhead |-> u] :
        d \in {"Monday", "Friday", "Saturday"}, h \in hours, m \in minutes,
        s \in SubMinutes, u \in {4, 5}}
Clocks ==
    ClocksAt({5, 9, 10, 15}, {24, 25, 26, 29, 30, 31, 54, 55, 56, 59})
        \cup ClocksAt({16}, {0, 54, 55, 56, 59}) \cup ClocksAt({20}, {30})

\* Windows that end at 15:30, as the default does, or at 16:00, with the
\* times in either pair of fields, missing or malformed, in New York time
\* or in UTC, and with a zone that time.LoadLocation does not know.
TradingHoursConfigs ==
    [StartTime : {HHMM(9, 30), NoTimeText, BadTimeText},
     EndTime : {HHMM(15, 30), HHMM(16, 0), NoTimeText, BadTimeText},
     Start : {HHMM(9, 30), NoTimeText},
     End : {HHMM(15, 30), NoTimeText},
     TimeZone : {"America/New_York", "UTC", "", "Invalid/TimeZone"},
     Weekend : BOOLEAN]

(***************************************************************************)
(* The locks of the two managers.  Every call of the managers is a         *)
(* sequence of operations on RiskManager.mu ("r") and TradeManager.mu      *)
(* ("t"); a deferred unlock is the call's last operation.  A goroutine     *)
(* runs one call at a time and blocks at an operation until the mutex      *)
(* admits it.                                                              *)
(***************************************************************************)
MaxGoroutines == 2

Goroutines == 1..MaxGoroutines

\* A goroutine between two calls.
Idle == [call |-> "none", pc |-> 0, waiting |-> FALSE]

\* The zero value of a sync.RWMutex.
NoLock == [writer |-> 0, readers |-> {}]

\* mu of &RiskManager{...} and of &TradeManager{...}
Unlocked ==
    /\ mu = [r |-> NoLock, t |-> NoLock]
    /\ calls = [g \in Goroutines |-> Idle]

\* t.mu.RLock(); defer t.mu.RUnlock()
GetActiveTradesLocks == << <<"RLock", "t">>, <<"RUnlock", "t">> >>

\* t.mu.Lock(); defer t.mu.Unlock(): ExecuteTrade, CheckStopLoss,
\* CloseAllPositions
TradeManagerLocks == << <<"Lock", "t">>, <<"Unlock", "t">> >>

\* r.mu.Lock(); defer r.mu.Unlock(); ... r.tradeManager.GetActiveTrades()
CheckDailyLossLocks ==
    << <<"Lock", "r">> >> \o GetActiveTradesLocks \o << <<"Unlock", "r">> >>

\* r.mu.Lock(); defer r.mu.Unlock()
UpdateDailyPnLLocks == << <<"Lock", "r">>, <<"Unlock", "r">> >>

\* r.mu.RLock(); defer r.mu.RUnlock()
GetDailyPnLLocks == << <<"RLock", "r">>, <<"RUnlock", "r">> >>

\* r.mu.RLock(); defer r.mu.RUnlock(); ... r.tradeManager.GetActiveTrades()
\* ... r.CheckDailyLoss(stocks); IsTradingHours and ShouldCloseAllPositions
\* take no lock.
GenerateRiskReportLocks ==
    << <<"RLock", "r">> >> \o GetActiveTradesLocks \o CheckDailyLossLocks
        \o << <<"RUnlock", "r">> >>

LockedCalls ==
    {"GenerateRiskReport", "CheckDailyLoss", "UpdateDailyPnL", "GetDailyPnL",
     "ExecuteTrade", "CheckStopLoss", "CloseAllPositions", "GetActiveTrades"}

LocksOf(call) ==
    CASE call = "GenerateRiskReport" -> GenerateRiskReportLocks
      [] call = "CheckDailyLoss" -> CheckDailyLossLocks
      [] call = "UpdateDailyPnL" -> UpdateDailyPnLLocks
      [] call = "GetDailyPnL" -> GetDailyPnLLocks
      [] call = "GetActiveTrades" -> GetActiveTradesLocks
      [] OTHER -> TradeManagerLocks

\* The goroutine stands before an operation of this kind.
At(g, kind) ==
    /\ calls[g].call # "none"
    /\ calls[g].pc <= Len(LocksOf(calls[g].call))
    /\ LocksOf(calls[g].call)[calls[g].pc][1] = kind

\* The mutex of the operation the goroutine stands before.
MutexAt(g) == LocksOf(calls[g].call)[calls[g].pc][2]

\* A goroutine makes a call.
Go(g, call) ==
    /\ calls[g] = Idle
    /\ calls' = [calls EXCEPT ![g] = [call |-> call, pc |-> 1, waiting |-> FALSE]]
    /\ UNCHANGED <<tmVars, rmVars, now, last, sgVars, held, mmVars, gsVars, pmVars, thVars, mu>>

\* RWMutex.RLock: admitted unless a writer holds the mutex or waits for it.
RLock(g) ==
    /\ At(g, "RLock")
    /\ mu[MutexAt(g)].writer = 0
    /\ mu' = [mu EXCEPT ![MutexAt(g)].readers = @ \cup {g}]
    /\ calls' = [calls EXCEPT ![g].pc = @ + 1]
    /\ UNCHANGED <<tmVars, rmVars, now, last, sgVars, held, mmVars, gsVars, pmVars, thVars>>

\* RWMutex.RUnlock
RUnlock(g) ==
    /\ At(g, "RUnlock")
    /\ mu' = [mu EXCEPT ![MutexAt(g)].readers = @ \ {g}]
    /\ calls' = [calls EXCEPT ![g].pc = @ + 1]
    /\ UNCHANGED <<tmVars, rmVars, now, last, sgVars, held, mmVars, gsVars, pmVars, thVars>>

\* RWMutex.Lock, first half: the writer excludes the other writers and
\* announces itself, which turns new readers away.
LockPending(g) ==
    /\ At(g, "Lock")
    /\ ~calls[g].waiting
    /\ mu[MutexAt(g)].writer = 0
    /\ mu' = [mu EXCEPT ![MutexAt(g)].writer = g]
    /\ calls' = [calls EXCEPT ![g].waiting = TRUE]
    /\ UNCHANGED <<tmVars, rmVars, now, last, sgVars, held, mmVars, gsVars, pmVars, thVars>>

\* RWMutex.Lock, second half: the writer waits for the readers to leave.
Lock(g) ==
    /\ At(g, "Lock")
    /\ calls[g].waiting
    /\ mu[MutexAt(g)].readers = {}
    /\ calls' = [calls EXCEPT ![g].pc = @ + 1, ![g].waiting = FALSE]
    /\ UNCHANGED <<tmVars, rmVars, now, last, sgVars, held, mmVars, gsVars, pmVars, thVars, mu>>

\* RWMutex.Unlock
Unlock(g) ==
    /\ At(g, "Unlock")
    /\ mu' = [mu EXCEPT ![MutexAt(g)].writer = 0]
    /\ calls' = [calls EXCEPT ![g].pc = @ + 1]
    /\ UNCHANGED <<tmVars, rmVars, now, last, sgVars, held, mmVars, gsVars, pmVars, thVars>>

\* The call returns after its last operation.
Return(g) ==
    /\ calls[g].call # "none"
    /\ calls[g].pc > Len(LocksOf(calls[g].call))
    /\ calls' = [calls EXCEPT ![g] = Idle]
    /\ UNCHANGED <<tmVars, rmVars, now, last, sgVars, held, mmVars, gsVars, pmVars, thVars, mu>>

\* A step of a call in progress.
Proceed(g) ==
    RLock(g) \/ RUnlock(g) \/ LockPending(g) \/ Lock(g) \/ Unlock(g) \/ Return(g)

(***************************************************************************)
(* The managers after NewTradeManager and NewRiskManager.                  *)
(***************************************************************************)
Init ==
    /\ trades = <<>>
    /\ activeTrades = {}
    /\ capitalPerStock \in CapitalValues
    /\ maxLossPerTrade \in MaxLossValues
    /\ maxDailyLoss \in MaxDailyLossValues
    /\ dailyPnL = 0
    /\ now = 0
    /\ tradingDay = Truncate(now)
    /\ nano = 0
    /\ last = Called("New", NoRet)
    /\ checking = NoCheck
    /\ tripped = FALSE
    /\ closes = {}
    /\ realizedToday = 0
    /\ realizedBefore = 0
    /\ ind = <<>>
    /\ cfg = <<>>
    /\ sig = NoSignal
    /\ held = {}
    /\ NewMarketMonitor
    /\ marketData = <<>>
    /\ signals = <<>>
    /\ NewMonitor
    /\ DefaultHours
    /\ Unlocked

\* One RiskManager configuration beside its TradeManager.
InitRisk == Init /\ capitalPerStock = 24

\* The classifier before a call, for every indicator set and configuration.
InitSignal ==
    /\ trades = <<>>
    /\ activeTrades = {}
    /\ capitalPerStock = 24
    /\ maxLossPerTrade = 4
    /\ maxDailyLoss = 6
    /\ dailyPnL = 0
    /\ now = 0
    /\ tradingDay = Truncate(now)
    /\ nano = 0
    /\ last = Called("New", NoRet)
    /\ checking = NoCheck
    /\ tripped = FALSE
    /\ closes = {}
    /\ realizedToday = 0
    /\ realizedBefore = 0
    /\ ind \in IndicatorSets
    /\ cfg \in VolatilityParams
    /\ sig = NoSignal
    /\ held = {}
    /\ NewMarketMonitor
    /\ marketData = <<>>
    /\ signals = <<>>
    /\ NewMonitor
    /\ DefaultHours
    /\ Unlocked

Decisions == [Symbol : Symbols, Signal : TradeSignals]
Stocks == [Symbol : Symbols, CurrentPrice : Prices]
UnknownID == TradeID("AAPL", "", 0)

\* The TradeManager on its own.
Next ==
    \/ \E decision \in Decisions, stock \in Stocks : ExecuteTrade(decision, stock)
    \/ \E tradeID \in DOMAIN trades \cup {UnknownID} : CancelTrade(tradeID)
    \/ \E stocks \in StockMaps : CheckStopLoss(stocks)
    \/ \E stocks \in StockMaps : CloseAllPositions(stocks)

Spec == Init /\ [][Next]_vars

\* The RiskManager beside its TradeManager: the orchestrator acts on a decision
\* with the stock it was made for, and reports a closed position with the
\* trade that closed it.
NextRisk ==
    \/ \E decision \in Decisions, stock \in Stocks :
          decision.Symbol = stock.Symbol /\ ExecuteTrade(decision, stock)
    \/ \E stocks \in StockMaps : CheckStopLoss(stocks)
    \/ \E stocks \in StockMaps : CloseAllPositions(stocks)
    \/ \E stocks \in StockMaps : CheckDailyLossSnapshot(stocks)
    \/ CheckDailyLoss
    \/ \E c \in closes : UpdateDailyPnL(trades[c.buy], trades[c.sell])
    \/ Tick

SpecRisk == InitRisk /\ [][NextRisk]_vars

\* Live prices for every instrument, low and high.
DayStockMaps == [Symbols -> {6, 10}]

\* The day's bookkeeping of the RiskManager beside a TradeManager whose
\* positions are opened and flattened meanwhile, every instrument priced.
NextDay ==
    \/ \E decision \in Decisions, stock \in Stocks :
          decision.Symbol = stock.Symbol /\ ExecuteTrade(decision, stock)
    \/ \E stocks \in DayStockMaps : CloseAllPositions(stocks)
    \/ \E stocks \in DayStockMaps : CheckDailyLossSnapshot(stocks)
    \/ CheckDailyLoss
    \/ \E c \in closes : UpdateDailyPnL(trades[c.buy], trades[c.sell])
    \/ Tick

SpecDay == InitRisk /\ [][NextDay]_vars

\* The TradeManager and a caller that keeps what the reads return.
NextReads ==
    \/ \E decision \in Decisions, stock \in Stocks :
          decision.Symbol = stock.Symbol /\ ExecuteTrade(decision, stock)
    \/ \E stocks \in StockMaps : CheckStopLoss(stocks)
    \/ \E tradeID \in DOMAIN trades \cup {UnknownID} : GetTrade(tradeID)
    \/ GetAllTrades
    \/ GetActiveTrades
    \/ \E pointer \in held, w \in CallerWrites : CallerWrite(pointer, w)
    \/ \E stocks \in StockMaps, race \in RacingStores(3) : CheckStopLossRace(stocks, race)
    \/ \E stocks \in DayStockMaps : CheckDailyLossSnapshot(stocks)
    \/ CheckDailyLoss
    \/ \E race \in RacingStores(2) : CheckDailyLossRace(race)

SpecReads == InitRisk /\ [][NextReads]_vars

\* The MarketMonitor, its callers and its goroutines.
NextMonitor ==
    \/ Start
    \/ Stop
    \/ IsRunning
    \/ \E l \in 1..MaxLoops : GoMonitorMarket(l)
    \/ \E l \in 1..MaxLoops : monitorMarket(l)

SpecMonitor == InitRisk /\ [][NextMonitor]_vars

\* The scheduler is fair to every goroutine, a Start that released the mutex
\* goes on to launch its goroutine, timers fire and market checks return;
\* nothing obliges a caller to call Start or Stop.
SpecMonitorFair ==
    SpecMonitor /\ \A l \in 1..MaxLoops : WF_vars(GoMonitorMarket(l)) /\ WF_vars(monitorMarket(l))

\* One classification of one instrument.
NextSignal == Analyze

SpecSignal == InitSignal /\ [][NextSignal]_vars

\* The generator before a call, for every configuration and market-data map.
InitGenerate ==
    /\ trades = <<>>
    /\ activeTrades = {}
    /\ capitalPerStock = 24
    /\ maxLossPerTrade = 4
    /\ maxDailyLoss = 6
    /\ dailyPnL = 0
    /\ now = 0
    /\ tradingDay = Truncate(now)
    /\ nano = 0
    /\ last = Called("New", NoRet)
    /\ checking = NoCheck
    /\ tripped = FALSE
    /\ closes = {}
    /\ realizedToday = 0
    /\ realizedBefore = 0
    /\ ind = <<>>
    /\ cfg \in GeneratorParams
    /\ sig = NoSignal
    /\ held = {}
    /\ NewMarketMonitor
    /\ marketData \in MarketDataOf(cfg)
    /\ signals = <<>>
    /\ NewMonitor
    /\ DefaultHours
    /\ Unlocked

\* Calls of GenerateSignals on one map.
NextGenerate == GenerateSignals

SpecGenerate == InitGenerate /\ [][NextGenerate]_vars

\* The indicator functions before a call, for every window and period.
InitWindow ==
    /\ trades = <<>>
    /\ activeTrades = {}
    /\ capitalPerStock = 24
    /\ maxLossPerTrade = 4
    /\ maxDailyLoss = 6
    /\ dailyPnL = 0
    /\ now = 0
    /\ tradingDay = Truncate(now)
    /\ nano = 0
    /\ last = Called("New", NoRet)
    /\ checking = NoCheck
    /\ tripped = FALSE
    /\ closes = {}
    /\ realizedToday = 0
    /\ realizedBefore = 0
    /\ ind = <<>>
    /\ cfg \in WindowParams
    /\ sig = NoSignal
    /\ held = {}
    /\ NewMarketMonitor
    /\ marketData \in [{"AAPL"} -> WindowData]
    /\ signals = <<>>
    /\ NewMonitor
    /\ DefaultHours
    /\ Unlocked

NextWindow == Indicators

SpecWindow == InitWindow /\ [][NextWindow]_vars

\* The performance Monitor and its callers.
NextPerformance ==
    \/ \E s \in SignalsAdded : AddSignal(s)
    \/ \E signalID \in {r.SignalID : r \in Range(results)} \cup {UnknownSignal},
          status \in SignalStatuses, exitPrice \in ExitPrices :
            UpdateSignalStatus(signalID, status, exitPrice)

SpecPerformance == InitRisk /\ [][NextPerformance]_vars

\* The two questions about the trading window, at every instant and for
\* every configured window.
InitHours ==
    /\ trades = <<>>
    /\ activeTrades = {}
    /\ capitalPerStock = 24
    /\ maxLossPerTrade = 4
    /\ maxDailyLoss = 6
    /\ dailyPnL = 0
    /\ now = 0
    /\ tradingDay = Truncate(now)
    /\ nano = 0
    /\ last = Called("New", NoRet)
    /\ checking = NoCheck
    /\ tripped = FALSE
    /\ closes = {}
    /\ realizedToday = 0
    /\ realizedBefore = 0
    /\ ind = <<>>
    /\ cfg = <<>>
    /\ sig = NoSignal
    /\ held = {}
    /\ NewMarketMonitor
    /\ marketData = <<>>
    /\ signals = <<>>
    /\ NewMonitor
    /\ clock \in Clocks
    /\ tradingHours \in TradingHoursConfigs
    /\ zoneinfo \in BOOLEAN
    /\ Unlocked

NextHours ==
    \/ ShouldCloseAllPositions
    \/ IsWithinTradingHours

SpecHours == InitHours /\ [][NextHours]_vars

\* Goroutines that call the managers' locked methods concurrently.
NextLocks ==
    \/ \E g \in Goroutines, call \in LockedCalls : Go(g, call)
    \/ \E g \in Goroutines : RLock(g)
    \/ \E g \in Goroutines : RUnlock(g)
    \/ \E g \in Goroutines : LockPending(g)
    \/ \E g \in Goroutines : Lock(g)
    \/ \E g \in Goroutines : Unlock(g)
    \/ \E g \in Goroutines : Return(g)

SpecLocks == InitRisk /\ [][NextLocks]_vars

\* The scheduler runs every goroutine that can run, and a mutex that is
\* freed again and again is not withheld from a waiting goroutine forever.
SpecLocksFair == SpecLocks /\ \A g \in Goroutines : SF_vars(Proceed(g))

(***************************************************************************)
(* Properties.                                                             *)
(***************************************************************************)
\* The instrument has an open position.
HasOpen(symbol) == \E id \in activeTrades : trades[id].Symbol = symbol

\* (exitPrice - entryPrice) * quantity of a closed position
ClosedPnL(c) == (trades[c.sell].Price - trades[c.buy].Price) * trades[c.buy].Quantity

\* (livePrice - entryPrice) * quantity of the open positions that have a live price
OpenPnL(stocks) ==
    [id \in activeTrades |->
        IF trades[id].Symbol \in DOMAIN stocks
        THEN (stocks[trades[id].Symbol] - trades[id].Price) * trades[id].Quantity
        ELSE 0]

\* C1: the TradeManager holds at most one active trade per instrument symbol,
\* whatever decision and stock arguments ExecuteTrade is given.
C1_OneActivePerSymbol ==
    \A a, b \in activeTrades : trades[a].Symbol = trades[b].Symbol => a = b

\* C2: once CheckDailyLoss has reported the limit reached, and until a day
\* rollover resets the PnL, every ExecuteTrade returns a "halted" result and
\* opens no position; stated for the calls that would otherwise open one, a
\* BUY for an instrument without a position.
C2_HaltedAfterTrip ==
    [][(/\ tripped
        /\ last'.op = "ExecuteTrade"
        /\ last'.arg.Signal = "BUY"
        /\ ~HasOpen(last'.arg.Symbol))
         => (last'.err = "halted" /\ activeTrades' \subseteq activeTrades)]_vars

\* C3: CheckStopLoss closes an open position iff a live price for its symbol
\* is supplied and (entryPrice - livePrice) * quantity is strictly greater
\* than maxLossPerTrade (a loss of exactly maxLossPerTrade leaves it open),
\* and it returns exactly the closing trades of the positions it closed.
C3_StopLossIffBreach ==
    [][last'.op = "CheckStopLoss" =>
       \A stocks \in StockMaps :
         CheckStopLoss(stocks) =>
           LET closed == activeTrades \ activeTrades'
               new == closes' \ closes
           IN  /\ activeTrades' \subseteq activeTrades
               /\ \A id \in activeTrades :
                    id \in closed <=>
                      /\ trades[id].Symbol \in DOMAIN stocks
                      /\ (trades[id].Price - stocks[trades[id].Symbol]) * trades[id].Quantity
                           > maxLossPerTrade
               /\ Len(last'.closed) = Cardinality(closed)
               /\ {c.buy : c \in new} = closed
               /\ {c.sell : c \in new} = Range(last'.closed)
               /\ \A c \in new :
                    /\ c.sell \in DOMAIN trades' \ DOMAIN trades
                    /\ trades'[c.sell].Type = "SELL"
                    /\ trades'[c.sell].Symbol = trades[c.buy].Symbol
                    /\ trades'[c.sell].Quantity = trades[c.buy].Quantity
                    /\ trades'[c.sell].Price = stocks[trades[c.buy].Symbol]
                    /\ trades'[c.buy].Status = "COMPLETED"]_vars

\* C3 witness: a stop-loss scan has just closed a position whose loss was
\* above the limit, and returned its closing trade.
C3_Witness ==
    /\ last.op = "CheckStopLoss"
    /\ Len(last.closed) = 1
    /\ \E c \in closes :
         /\ c.sell = last.closed[1]
         /\ trades[c.sell].Reason = "stoploss"
         /\ -ClosedPnL(c) > maxLossPerTrade
         /\ c.buy \notin activeTrades

\* C4: every emitted signal has stopLoss < price < targetPrice for BUY and
\* targetPrice < price < stopLoss for SELL.
C4_LevelsOrdered ==
    sig # NoSignal =>
        IF sig.Type = "BUY"
        THEN Less(sig.StopLoss, sig.Price) /\ Less(sig.Price, sig.TargetPrice)
        ELSE Less(sig.TargetPrice, sig.Price) /\ Less(sig.Price, sig.StopLoss)

\* The return from entry to target, in the direction of the signal, in
\* percent, as a real.
ReturnTo(type, price, target) ==
    LET gain == IF type = "BUY" THEN Minus(target, price, "unknown")
                ELSE Minus(price, target, "unknown")
    IN  Over(Scale(gain, 100, 1, "unknown"), price, "unknown")

\* C5: no emitted signal has an expected return below minExpectedROI; when
\* the return from entry to target is below it, there is no signal although
\* score and direction qualified.
C5_ROIGate ==
    /\ sig # NoSignal =>
         /\ ~Less(ReturnTo(sig.Type, sig.Price, sig.TargetPrice),
                  Frac(cfg.MinExpectedROI, 10))
         /\ ~Lt(sig.ExpectedROI, Frac(cfg.MinExpectedROI, 10))
    /\ (/\ last.op = "analyzeVolatilityPatterns"
        /\ calculateVolatilityScore(ind, cfg) >= cfg.ConfidenceThreshold
        /\ determineSignalType(ind) # "HOLD"
        /\ Less(ReturnTo(determineSignalType(ind), ind.price,
                         calculatePriceLevels(ind.price, determineSignalType(ind),
                                              ind, cfg)[1]),
                Frac(cfg.MinExpectedROI, 10)))
       => sig = NoSignal

\* C5 witness: score and direction qualified, the band holds the target too
\* close to the entry, and no signal came out.
C5_Witness ==
    /\ last.op = "analyzeVolatilityPatterns"
    /\ calculateVolatilityScore(ind, cfg) >= cfg.ConfidenceThreshold
    /\ determineSignalType(ind) = "BUY"
    /\ Less(ind.price, ind.upper_band)
    /\ Less(ReturnTo("BUY", ind.price, ind.upper_band), Frac(cfg.MinExpectedROI, 10))
    /\ sig = NoSignal

\* C6: after CloseAllPositions, for any live-price map, no trade is active and
\* every position that was open has a closing trade in the returned list.
C6_FlattenClosesAll ==
    [][last'.op = "CloseAllPositions" =>
       \A stocks \in StockMaps :
         CloseAllPositions(stocks) =>
           /\ activeTrades' = {}
           /\ \A id \in activeTrades :
                \E k \in 1..Len(last'.closed) :
                    [buy |-> id, sell |-> last'.closed[k]] \in closes']_vars

\* C7: within one trading day, the realized daily PnL equals the sum of
\* (exitPrice - entryPrice) * quantity over the positions closed that day.
C7_RealizedIsSumOfCloses ==
    now < DayLen => dailyPnL = SumOver(closes, [c \in closes |-> ClosedPnL(c)])

\* (livePrice - entryPrice) * quantity of the positions that the check under
\* way read as open, at the live prices it was given
SnapshotPnL ==
    [id \in checking.snapshot |->
        IF trades[id].Symbol \in DOMAIN checking.stocks
        THEN (checking.stocks[trades[id].Symbol] - trades[id].Price) * trades[id].Quantity
        ELSE 0]

\* C8: the first CheckDailyLoss or UpdateDailyPnL call of a later day resets
\* the realized PnL before using it and advances tradingDay, calls on the
\* same day never reset it: after either call the realized PnL is what was
\* reported since the calendar day of the call began, and the PnL that
\* CheckDailyLoss returns holds nothing of an earlier day.
C8_DayRollover ==
    [][/\ last'.op \in {"CheckDailyLossSnapshot", "UpdateDailyPnL"} =>
            /\ tradingDay' = Truncate(now')
            /\ dailyPnL' = realizedToday'
       /\ last'.op = "CheckDailyLossSnapshot" => checking'.pnl = realizedToday'
       /\ last'.op = "CheckDailyLoss" =>
            /\ dailyPnL' = checking.pnl
            /\ last'.pnl = checking.pnl + SumOver(checking.snapshot, SnapshotPnL)]_vars

\* C8 witness: a loss was realized on an earlier day, and the check of the new
\* day starts from zero.
C8_Witness ==
    /\ last.op = "CheckDailyLoss"
    /\ realizedBefore < 0
    /\ tradingDay = DayLen
    /\ dailyPnL = 0
    /\ last.pnl = 0

\* C9: CheckDailyLoss reports the limit reached exactly when the realized PnL
\* plus the unrealized PnL of the open positions is <= -maxDailyLoss, and
\* returns that aggregate.
C9_LimitAtOrBelow ==
    [][last'.op = "CheckDailyLoss" =>
         LET aggregate == dailyPnL' + SumOver(activeTrades, OpenPnL(checking.stocks))
         IN  /\ last'.pnl = aggregate
             /\ last'.reached <=> aggregate <= -maxDailyLoss]_vars

\* C10: ExecuteTrade with SELL for an instrument without an open position, or
\* with BUY for an instrument that has one, returns a reason and no trade, and
\* leaves the trade records and the open positions unchanged.
C10_InvalidStateNoOp ==
    [][last'.op = "ExecuteTrade" =>
       \A decision \in Decisions, stock \in Stocks :
         (/\ ExecuteTrade(decision, stock)
          /\ \/ decision.Signal = "SELL" /\ ~HasOpen(decision.Symbol)
             \/ decision.Signal = "BUY" /\ HasOpen(decision.Symbol))
         => /\ last'.err # ""
            /\ last'.trade = NoTrade
            /\ trades' = trades
            /\ activeTrades' = activeTrades]_vars

\* C10 witness: a BUY for an instrument that is already long was turned down.
C10_Witness ==
    /\ last.op = "ExecuteTrade"
    /\ last.arg.Signal = "BUY"
    /\ HasOpen(last.arg.Symbol)
    /\ last.err = "already active"
    /\ last.trade = NoTrade

\* C11: ExecuteTrade with BUY for an instrument without an open position opens
\* a position of floor(capitalPerStock / currentPrice) shares at the current
\* price; when that is <= 0 it returns the insufficient-capital failure and no
\* trade and leaves the state unchanged, so an identical later call meets the
\* same state.
C11_OpenSizedOrRefused ==
    [][last'.op = "ExecuteTrade" =>
       \A decision \in Decisions, stock \in Stocks :
         (/\ ExecuteTrade(decision, stock)
          /\ decision.Signal = "BUY"
          /\ ~HasOpen(decision.Symbol))
         => IF capitalPerStock < stock.CurrentPrice
            THEN /\ last'.err = "insufficient capital"
                 /\ last'.trade = NoTrade
                 /\ trades' = trades
                 /\ activeTrades' = activeTrades
            ELSE /\ last'.err = ""
                 /\ last'.trade \in DOMAIN trades' \ DOMAIN trades
                 /\ activeTrades' = activeTrades \cup {last'.trade}
                 /\ \A id \in DOMAIN trades : trades'[id] = trades[id]
                 /\ LET opened == trades'[last'.trade]
                    IN  /\ opened.Type = "BUY"
                        /\ opened.Status = "EXECUTED"
                        /\ opened.Price = stock.CurrentPrice
                        /\ opened.Quantity > 0
                        /\ opened.Quantity * stock.CurrentPrice <= capitalPerStock
                        /\ capitalPerStock < (opened.Quantity + 1) * stock.CurrentPrice]_vars

\* C11 witness: a BUY that the capital does not cover was refused, and the
\* trade records are still empty.
C11_Witness ==
    /\ last.op = "ExecuteTrade"
    /\ last.arg.Signal = "BUY"
    /\ last.err = "insufficient capital"
    /\ last.trade = NoTrade
    /\ \A price \in Prices : capitalPerStock < price
    /\ trades = <<>>

\* C12: the reads return defensive copies: a store through a trade obtained
\* from GetActiveTrades, GetAllTrades or GetTrade does not change the trades
\* of the manager, and what a caller reads through a value it was given does
\* not change when the manager mutates the trade later.
C12_ReadsAreCopies ==
    [][/\ last'.op = "CallerWrite" => trades' = trades
       /\ last'.op # "CallerWrite" => \A pointer \in held : Deref(pointer)' = Deref(pointer)]_vars

\* The goroutine was launched and has not returned, and is not merely about
\* to: a select that blocks on a closed channel can only return.
Running(l) ==
    /\ loops[l].pc \notin {"go", "done"}
    /\ ~(loops[l].pc = "blocked" /\ loops[l].ch \in closedChans)

\* C13: for any sequence of Start and Stop calls, at most one polling loop is
\* running at any time.
C13_OnePollingLoop ==
    Cardinality({l \in 1..Len(loops) : Running(l)}) <= 1

\* C14: once Stop has returned, and until Start is called again, no polling
\* loop begins a market check.
C14_NoCheckAfterStop ==
    [][\A l \in 1..Len(loops) :
         (loops[l].pc # "check" /\ loops'[l].pc = "check") => isRunning]_vars

\* The Stop that closes the channel made by the Start of the l-th goroutine
\* was called.
MatchingStopCalled(l) ==
    IF l \in 1..Len(loops) THEN loops[l].own \in closedChans ELSE FALSE

\* The l-th goroutine has returned.
Returned(l) ==
    IF l \in 1..Len(loops) THEN loops[l].pc = "done" ELSE FALSE

\* C15: every polling loop that a successful Start launched terminates
\* eventually once the matching Stop, the one that closes the channel its
\* Start made, was called.
C15_LoopTerminates ==
    \A l \in 1..MaxLoops : [](MatchingStopCalled(l) => <>Returned(l))

\* C16: Start on a running monitor returns "already running" and leaves it
\* running, Stop on a stopped one returns "not running" and leaves it stopped,
\* a stopped monitor starts again, and IsRunning is true exactly when the
\* last successful call was a Start.
C16_StartStopContract ==
    [][/\ last'.op = "Start" =>
            /\ isRunning'
            /\ last'.err = (IF started THEN "already running" ELSE "")
            /\ started => UNCHANGED <<stopChan, closedChans, loops>>
       /\ last'.op = "Stop" =>
            /\ ~isRunning'
            /\ last'.err = (IF started THEN "" ELSE "not running")
            /\ ~started => UNCHANGED <<stopChan, closedChans, loops>>
       /\ last'.op = "IsRunning" => last'.reached = started
       /\ last'.op \notin {"Start", "Stop"} => isRunning' = isRunning
       /\ isRunning' = started']_vars

\* C16 witness: a monitor that was started and stopped is started again, and
\* is running.
C16_Witness ==
    /\ last.op = "Start"
    /\ last.err = ""
    /\ Len(loops) = 2
    /\ stopChan - 1 \in closedChans
    /\ isRunning

\* The score passes the confidence threshold and the expected ROI of a
\* signal of this type passes the gate of analyzeVolatilityPatterns, the
\* float64 comparison expectedROI < MinExpectedROI.
GatesMet(type) ==
    /\ calculateVolatilityScore(ind, cfg) >= cfg.ConfidenceThreshold
    /\ ~FailsROIGate(calculateExpectedROI(
                         ind.price, calculatePriceLevels(ind.price, type, ind, cfg)[1], type),
                     cfg)

\* C17: a price below lowerBand * 1.02 with RSI < 30, the score passing
\* confidenceThreshold and the ROI gate met, yields a BUY signal; a price above
\* upperBand * 0.98 with RSI > 70 and both gates met yields a SELL signal.
\* The gates are those of the code, as GatesMet takes them.
C17_ExtremesClassified ==
    last.op = "analyzeVolatilityPatterns" =>
        /\ (NearLower(ind) /\ Lt(ind.rsi, Whole(30)) /\ GatesMet("BUY"))
              => sig # NoSignal /\ sig.Type = "BUY"
        /\ (NearUpper(ind) /\ Gt(ind.rsi, Whole(70)) /\ GatesMet("SELL"))
              => sig # NoSignal /\ sig.Type = "SELL"

\* C17 witness: an overbought instrument at its upper band passed both gates
\* and its signal is a SELL.
C17_Witness ==
    /\ last.op = "analyzeVolatilityPatterns"
    /\ NearUpper(ind)
    /\ Gt(ind.rsi, Whole(70))
    /\ GatesMet("SELL")
    /\ sig # NoSignal
    /\ sig.Type = "SELL"

\* C19: the composite score lies in [0, 1]; an emitted signal carries it as its
\* confidence and it is at least confidenceThreshold; a score below the
\* threshold yields no signal.
C19_ConfidenceIsScore ==
    LET score == calculateVolatilityScore(ind, cfg)
    IN  /\ score >= 0 /\ score <= 100
        /\ sig # NoSignal =>
              sig.Confidence = score /\ sig.Confidence >= cfg.ConfidenceThreshold
        /\ (last.op = "analyzeVolatilityPatterns" /\ score < cfg.ConfidenceThreshold)
              => sig = NoSignal

\* C19 witness: a signal without a volume surge, whose score is the sum of the
\* three other components and passes the threshold 0.7.
C19_Witness ==
    /\ sig # NoSignal
    /\ cfg.ConfidenceThreshold = 70
    /\ ~Gt(ind.volume_ratio, Whole(cfg.VolumeThreshold))
    /\ sig.Confidence = BandScore + RSIScore + PriceChangeScore

\* C18: the result holds at most one signal for an instrument, every signal is
\* a BUY or a SELL, an instrument with fewer than 30 prices or fewer than 30
\* volumes has no signal, and the call returns no error.
C18_AtMostOnePerSymbol ==
    /\ \A i, j \in DOMAIN signals : signals[i].Symbol = signals[j].Symbol => i = j
    /\ \A i \in DOMAIN signals :
          /\ signals[i].Type \in {"BUY", "SELL"}
          /\ signals[i].Symbol \in DOMAIN marketData
          /\ Len(marketData[signals[i].Symbol].Prices) >= 30
          /\ Len(marketData[signals[i].Symbol].Volumes) >= 30
    /\ last.op = "GenerateSignals" => last.err = ""

\* C18 witness: of two instruments with the same prices, the one with 30
\* volumes has its signal and the one with fewer has none.
C18_Witness ==
    /\ last.op = "GenerateSignals"
    /\ DOMAIN marketData = Symbols
    /\ marketData["AAPL"].Prices = marketData["MSFT"].Prices
    /\ Len(marketData["AAPL"].Volumes) >= 30
    /\ Len(marketData["MSFT"].Volumes) < 30
    /\ Len(signals) = 1
    /\ signals[1].Symbol = "AAPL"

\* Scenario 1: at least 25 flat prices at $100, then a close at $102 without a
\* fall on the way, and the volume surge on the last two samples.
Scenario1(data) ==
    /\ \A i \in 1..25 : data.Prices[i] = 100
    /\ data.Prices[Len(data.Prices)] = 102
    /\ \A i \in 2..Len(data.Prices) : data.Prices[i] >= data.Prices[i - 1]
    /\ data.Volumes[Len(data.Volumes)] > data.Volumes[1]
    /\ data.Volumes[Len(data.Volumes) - 1] > data.Volumes[1]

\* C20: with the default thresholds the generator yields, for an instrument
\* with the series of scenario 1, a BUY signal entered at 102 with the target
\* at or below the upper band and the stop at or above the lower band.
C20_SpikeYieldsBuy ==
    (last.op = "GenerateSignals" /\ cfg = DefaultParams) =>
        \A symbol \in DOMAIN marketData :
            Scenario1(marketData[symbol]) =>
                \E i \in DOMAIN signals :
                    /\ signals[i].Symbol = symbol
                    /\ signals[i].Type = "BUY"
                    /\ signals[i].Price = Whole(102)
                    /\ ~Less(signals[i].TechnicalData.upper_band, signals[i].TargetPrice)
                    /\ ~Less(signals[i].StopLoss, signals[i].TechnicalData.lower_band)

\* C21: a window shorter than the period has a moving average of 0 and both
\* bands at 0, a window shorter than period + 1 has an RSI of 50, and the
\* call returns its indicators without an error.
C21_NeutralDefaults ==
    last.op = "calculateTechnicalIndicators" =>
        LET prices == marketData["AAPL"].Prices
        IN  /\ last.err = ""
            /\ Len(prices) < cfg.BollingerPeriod =>
                  /\ calculateSMA(prices, cfg.BollingerPeriod) = Whole(0)
                  /\ ind.sma = Whole(0)
                  /\ ind.upper_band = Whole(0) /\ ind.lower_band = Whole(0)
            /\ Len(prices) < cfg.RSIPeriod + 1 =>
                  /\ calculateRSI(prices, cfg.RSIPeriod) = Whole(50)
                  /\ ind.rsi = Whole(50)

\* C21 witness: a falling window too short for the bands and for the RSI, with
\* the defaults in its indicators.
C21_Witness ==
    /\ last.op = "calculateTechnicalIndicators"
    /\ Len(marketData["AAPL"].Prices) < cfg.RSIPeriod + 1
    /\ Len(marketData["AAPL"].Prices) < cfg.BollingerPeriod
    /\ ind.price = Whole(98) /\ Less(ind.price_change, Whole(0))
    /\ ind.sma = Whole(0) /\ ind.upper_band = Whole(0) /\ ind.lower_band = Whole(0)
    /\ ind.rsi = Whole(50)

\* C22: no step of the TradeManager takes an ID out of the trade records, and
\* every position that was closed by an opposing signal, a stop-loss or a
\* flatten is in the records, where GetTrade finds it, as COMPLETED.
C22_NeverDeleted ==
    [][/\ DOMAIN trades \subseteq DOMAIN trades'
       /\ \A c \in closes' :
            /\ c.buy \in DOMAIN trades'
            /\ trades'[c.buy].ID = c.buy
            /\ trades'[c.buy].Status = "COMPLETED"]_vars

\* C22 witness: a position closed by the stop-loss is still in the records as
\* COMPLETED after a CancelTrade on it was refused.
C22_Witness ==
    /\ last.op = "CancelTrade"
    /\ last.err = "cannot cancel completed"
    /\ \E c \in closes :
         /\ trades[c.sell].Reason = "stoploss"
         /\ c.buy \in DOMAIN trades
         /\ trades[c.buy].Status = "COMPLETED"

\* C27: every active trade is in the trade records under its ID as an EXECUTED
\* BUY, and a step that closes a position takes it out of the active set,
\* marks it COMPLETED and records exactly one EXECUTED SELL trade with the
\* position's symbol and quantity.
C27_ActiveAreOpenBuys ==
    [][/\ \A id \in activeTrades' :
            /\ id \in DOMAIN trades'
            /\ trades'[id].ID = id
            /\ trades'[id].Type = "BUY"
            /\ trades'[id].Status = "EXECUTED"
       /\ \A c \in closes' \ closes :
            /\ c.buy \in activeTrades /\ c.buy \notin activeTrades'
            /\ trades'[c.buy].Status = "COMPLETED"
            /\ c.sell \in DOMAIN trades' \ DOMAIN trades
            /\ trades'[c.sell].Type = "SELL"
            /\ trades'[c.sell].Status = "EXECUTED"
            /\ trades'[c.sell].Symbol = trades[c.buy].Symbol
            /\ trades'[c.sell].Quantity = trades[c.buy].Quantity
            /\ \A d \in closes' : d.buy = c.buy => d = c
       /\ Cardinality(DOMAIN trades' \ DOMAIN trades)
            = Cardinality(closes' \ closes)
              + Cardinality(activeTrades' \ activeTrades)]_vars

\* C30: CancelTrade of an unknown ID or of a COMPLETED trade returns an error
\* and changes nothing; of any other trade it returns no error, sets the trade
\* to CANCELLED and takes it out of the active set without touching another
\* trade, so a second cancel changes the active set no further; and after the
\* cancel of an open position its instrument has no position.
C30_CancelContract ==
    [][last'.op = "CancelTrade" =>
       \A tradeID \in DOMAIN trades \cup {UnknownID} :
         CancelTrade(tradeID) =>
           IF tradeID \notin DOMAIN trades \/ trades[tradeID].Status = "COMPLETED"
           THEN /\ last'.err # ""
                /\ trades' = trades
                /\ activeTrades' = activeTrades
           ELSE /\ last'.err = ""
                /\ trades' = [trades EXCEPT ![tradeID].Status = "CANCELLED"]
                /\ activeTrades' = activeTrades \ {tradeID}
                /\ trades[tradeID].Status = "CANCELLED" => activeTrades' = activeTrades
                /\ tradeID \in activeTrades =>
                     \A id \in activeTrades' : trades'[id].Symbol # trades[tradeID].Symbol]_vars

\* The results at the positions I whose status is SUCCESS or FAILURE.
Settled(I) == {i \in I : results[i].Status \in {"SUCCESS", "FAILURE"}}

\* The sum of ActualROI over the results at the positions I.
RECURSIVE SumOfROI(_)
SumOfROI(I) ==
    IF I = {} THEN Whole(0)
    ELSE LET i == CHOOSE j \in I : TRUE
         IN  Plus(SumOfROI(I \ {i}), results[i].ActualROI, "unknown")

\* C23: TotalProfit is the sum of ActualROI over the results with status
\* SUCCESS or FAILURE, overall and for every symbol.
C23_ProfitIsSumOfROI ==
    /\ Same(metrics.TotalProfit, SumOfROI(Settled(DOMAIN results)))
    /\ \A s \in DOMAIN metrics.SymbolPerformance :
          Same(metrics.SymbolPerformance[s].TotalProfit,
               SumOfROI(Settled({i \in DOMAIN results : results[i].Symbol = s})))

\* The partition of the results at the positions I that the counts m state.
Partitioned(m, I) ==
    /\ m.SignalsCount = Cardinality(I)
    /\ m.SignalsCount = m.SuccessCount + m.FailureCount + m.PendingCount
    /\ m.SuccessCount = Cardinality({i \in I : results[i].Status = "SUCCESS"})
    /\ m.FailureCount = Cardinality({i \in I : results[i].Status \in {"FAILURE", "EXPIRED"}})
    /\ m.PendingCount
         = Cardinality({i \in I : results[i].Status \notin {"SUCCESS", "FAILURE", "EXPIRED"}})

\* C24: SignalsCount is the number of signals added and the sum of the success,
\* failure and pending counts, a result counting as success iff it is SUCCESS,
\* as failure iff it is FAILURE or EXPIRED and as pending otherwise; so it is
\* for every symbol and every day of the results.
C24_CountsPartition ==
    /\ metrics.SignalsCount = added
    /\ Partitioned(metrics, DOMAIN results)
    /\ DOMAIN metrics.SymbolPerformance = {r.Symbol : r \in Range(results)}
    /\ \A s \in DOMAIN metrics.SymbolPerformance :
          Partitioned(metrics.SymbolPerformance[s],
                      {i \in DOMAIN results : results[i].Symbol = s})
    /\ DOMAIN metrics.DailyPerformance = {r.GeneratedAt : r \in Range(results)}
    /\ \A d \in DOMAIN metrics.DailyPerformance :
          Partitioned(metrics.DailyPerformance[d],
                      {i \in DOMAIN results : results[i].GeneratedAt = d})

\* C24 witness: two signals of one symbol and two days, one expired and one
\* set back to ACTIVE, counted as one failure and one pending.
C24_Witness ==
    /\ last.op = "UpdateSignalStatus"
    /\ added = 2
    /\ \E i, j \in DOMAIN results :
         /\ results[i].Status = "EXPIRED"
         /\ results[j].Status = "ACTIVE" /\ results[j].ExitPrice # 0
         /\ results[i].Symbol = results[j].Symbol
         /\ results[i].GeneratedAt # results[j].GeneratedAt
    /\ metrics.FailureCount = 1 /\ metrics.PendingCount = 1

\* C25: ShouldCloseAllPositions returns true exactly at the weekday instants
\* within the five minutes before the end of the configured trading window,
\* the end that IsWithinTradingHours uses.
C25_FlattenBeforeWindowEnd ==
    /\ last.op = "ShouldCloseAllPositions"
    /\ EndTimeStr(tradingHours).text = "HH:MM"
    /\ LoadLocation(tradingHours.TimeZone) # "unknown time zone"
    => LET nowLoc == In(clock, LoadLocation(tradingHours.TimeZone))
           endTimeStr == EndTimeStr(tradingHours)
           endTime == MinuteOfDay(endTimeStr.hour, endTimeStr.minute)
       IN  last.reached <=> /\ ~IsWeekend(nowLoc)
                            /\ After(nowLoc, endTime - 5)
                            /\ Before(nowLoc, endTime)

\* C26: every call of GenerateRiskReport, CheckDailyLoss, UpdateDailyPnL,
\* GetDailyPnL, ExecuteTrade, CheckStopLoss, CloseAllPositions and
\* GetActiveTrades eventually returns, whatever the other goroutines call:
\* none blocks forever on the managers' locks.
C26_EveryCallReturns ==
    \A g \in Goroutines : (calls[g].call # "none") ~> (calls[g].call = "none")

\* C28: the bullish and the bearish conditions of determineSignalType never
\* hold together, so the classification of an analysed indicator set is the
\* same when the bearish conditions are tested first, and the direction of an
\* emitted signal is the classification of its indicator values.
C28_DirectionsExclusive ==
    last.op = "analyzeVolatilityPatterns" =>
        /\ ~(Bullish(ind) /\ Bearish(ind))
        /\ determineSignalType(ind) = IF Bearish(ind) THEN "SELL"
                                      ELSE IF Bullish(ind) THEN "BUY"
                                      ELSE "HOLD"
        /\ sig # NoSignal => sig.Type = determineSignalType(sig.TechnicalData)

\* An oversold instrument at its lower band whose price fell was analysed
\* and its signal is a BUY.
C28_Witness ==
    /\ last.op = "analyzeVolatilityPatterns"
    /\ NearLower(ind)
    /\ Lt(ind.price_change, Whole(0))
    /\ Lt(ind.rsi, Whole(30))
    /\ sig # NoSignal
    /\ sig.Type = "BUY"

\* The percentage level of the target: price * (1 +- MinExpectedROI/100).
PercentageTarget(type, price, params) ==
    IF type = "BUY" THEN Level(price, params.MinExpectedROI, "level")
    ELSE Level(price, -params.MinExpectedROI, "level")

\* The band on the target's side lies closer to the price than the
\* percentage level.
BandCloser(type, i, params) ==
    IF type = "BUY" THEN Less(i.upper_band, PercentageTarget(type, i.price, params))
    ELSE Less(PercentageTarget(type, i.price, params), i.lower_band)

\* C29: in exact arithmetic every emitted signal has an expected ROI equal to
\* MinExpectedROI and its target at the percentage level, and an indicator
\* set whose band lies closer to the price than that level yields no signal:
\* the band vetoes a signal and never moves the target of an emitted one.
C29_TargetAtMinROI ==
    last.op = "analyzeVolatilityPatterns" =>
        /\ sig # NoSignal =>
            /\ Same(sig.ExpectedROI, Frac(cfg.MinExpectedROI, 10))
            /\ sig.TargetPrice = PercentageTarget(sig.Type, sig.Price, cfg)
            /\ ~BandCloser(sig.Type, ind, cfg)
        /\ BandCloser(determineSignalType(ind), ind, cfg) => sig = NoSignal

\* A BUY was emitted for an instrument whose upper band lies beyond the
\* percentage level.
C29_Witness ==
    /\ last.op = "analyzeVolatilityPatterns"
    /\ sig # NoSignal
    /\ sig.Type = "BUY"
    /\ Less(PercentageTarget("BUY", ind.price, cfg), ind.upper_band)
    /\ sig.TargetPrice = PercentageTarget("BUY", ind.price, cfg)

====
